---- MODULE Spec2Model ----
(***************************************************************************)
(* The dual-backend execution facade of the container engine: facade       *)
(* construction (NewTestingEngine, NewLibpodTestingRuntime), the Direct    *)
(* (abi) and Remote (tunnel) backends' operations, and the API server's    *)
(* health-check handler.                                                   *)
(***************************************************************************)
EXTENDS Integers, Sequences, FiniteSets, TLC

VARIABLES
    facts,      \* *entities.PodmanConfig handed to NewTestingEngine
    pc,         \* "start" before NewTestingEngine was called, "done" after
    engine,     \* the ientities.TestingEngine NewTestingEngine returned
    err,        \* the error NewTestingEngine returned
    trace,      \* collaborator calls made by NewTestingEngine, in order
    clientCtx,  \* state of the Remote engine's ClientCtx: "nil", "live", "cancelled"
    requests,   \* number of transport requests issued through ClientCtx
    ctrs,       \* the libpod runtime's containers: name -> state
    hcDirect,   \* last health check through the Direct backend
    hcRemote,   \* last health check through the Remote backend
    last,       \* last AutoUpdate / ShowTrust / SetTrust call and its result
    vm,         \* the auto-provisioned machine: its hypervisor's view of the VM
    stub,       \* last Machine Lifecycle Stubber call, and the Remove calls so far
    resolve,    \* inputs and result of extractConnectionString
    pull,       \* inputs and result of artifacts.Pull
    enc,        \* options handed to ToParams and the parameters it produced
    ev,         \* the Events subscription of the Direct backend
    calls,      \* health checks in flight through a shared Remote ClientCtx, per caller
    cmd,        \* arguments and result of the network update command
    rnd         \* arguments and result of the test helper randomString

vars == <<facts, pc, engine, err, trace, clientCtx, requests, ctrs, hcDirect, hcRemote, last,
          vm, stub, resolve, pull, enc, ev, calls, cmd, rnd>>

facadeVars == <<facts, pc, engine, err, trace>>
healthVars == <<ctrs, hcDirect, hcRemote>>
machineVars == <<vm, stub>>
adapterVars == <<resolve, pull, enc>>
streamVars == <<ev, calls>>
toolVars == <<cmd, rnd>>

----------------------------------------------------------------------------
(* Bounds of the model *)

\* number of containers the runtime knows by name
NumCtrs == 1
\* cap on the transport request counter
MaxRequests == 2
\* longest list of auto-update units
MaxUnits == 3
\* number of callers sharing one Remote ClientCtx
NumCallers == 2

----------------------------------------------------------------------------
(* Go values *)

\* a nil error
NilErr == [kind |-> "nil", msg |-> "", args |-> <<>>]

\* errors.New(msg)
ErrorsNew(msg) == [kind |-> "errorString", msg |-> msg, args |-> <<>>]

\* fmt.Errorf(format, args...): the format and the values substituted into it
Errorf(format, args) == [kind |-> "errorString", msg |-> format, args |-> args]

\* a nil slice and a non-nil slice holding items
NilSlice == [nil |-> TRUE, items |-> <<>>]
Slice(items) == [nil |-> FALSE, items |-> items]

\* entities.EngineMode values
ABIMode == "abi"
TunnelMode == "tunnel"
EngineModes == {ABIMode, TunnelMode, "", "bogus"}

\* connection URIs a configuration may carry
URIs == {"unix:///run/podman/podman.sock", "ssh://core@localhost:2222/run/podman.sock"}

\* a nil TestingEngine interface value
NilEngine == [kind |-> "nil"]

NilRuntime == [ptr |-> "nil"]
NilStore == [ptr |-> "nil"]
NilCtx == [ptr |-> "nil"]

----------------------------------------------------------------------------
(* Transport address resolution.  Strings that are taken apart or put       *)
(* together are sequences of characters.                                    *)

\* longest artifact path drawn as an input
MaxPathLen == 2

\* a nil *define.VMFile
NilVMFile == [ptr |-> "nil"]

\* the characters artifact paths are drawn from
PathChars == {"\\", "/", "a"}
ShortPaths == UNION {[1..n -> PathChars] : n \in 0..MaxPathLen}

\* filepath.ToSlash on the pipe platform: every separator becomes a slash
ToSlash(path) == [i \in 1..Len(path) |-> IF path[i] = "\\" THEN "/" ELSE path[i]]

NpipeScheme == <<"n", "p", "i", "p", "e", ":", "/", "/">>
UnixScheme == <<"u", "n", "i", "x", ":", "/", "/">>

\* strings.HasPrefix
HasPrefix(str, prefix) ==
    /\ Len(str) >= Len(prefix)
    /\ SubSeq(str, 1, Len(prefix)) = prefix

\* env.WithPodmanPrefix(name)
WithPodmanPrefix(name) ==
    IF HasPrefix(name, <<"p", "o", "d", "m", "a", "n">>)
    THEN name
    ELSE <<"p", "o", "d", "m", "a", "n", "-">> \o name

\* getPipe(name)
getPipe(name) ==
    [Path |-> <<"\\", "\\", ".", "\\", "p", "i", "p", "e", "\\">> \o WithPodmanPrefix(name)]

\* faulty variant: the pipe's path is used with its backslashes
extractConnectionStringWindows_NoToSlash(podmanSocket, podmanPipe) ==
    IF podmanPipe = NilVMFile
    THEN [uri |-> <<>>, err |-> ErrorsNew("pipe of machine is not set")]
    ELSE [uri |-> NpipeScheme \o podmanPipe.Path, err |-> NilErr]

\* extractConnectionString of the pipe platform (windows)
extractConnectionStringWindows(podmanSocket, podmanPipe) ==
    IF podmanPipe = NilVMFile
    THEN [uri |-> <<>>, err |-> ErrorsNew("pipe of machine is not set")]
    ELSE [uri |-> NpipeScheme \o ToSlash(podmanPipe.Path), err |-> NilErr]

\* faulty variant: an unset socket is replaced by the pipe
extractConnectionStringUnix_Substitute(podmanSocket, podmanPipe) ==
    IF podmanSocket = NilVMFile
    THEN IF podmanPipe = NilVMFile
         THEN [uri |-> <<>>, err |-> ErrorsNew("socket of machine is not set")]
         ELSE [uri |-> NpipeScheme \o podmanPipe.Path, err |-> NilErr]
    ELSE [uri |-> UnixScheme \o podmanSocket.Path, err |-> NilErr]

\* extractConnectionString of the socket platforms (!windows)
extractConnectionStringUnix(podmanSocket, podmanPipe) ==
    IF podmanSocket = NilVMFile
    THEN [uri |-> <<>>, err |-> ErrorsNew("socket of machine is not set")]
    ELSE [uri |-> UnixScheme \o podmanSocket.Path, err |-> NilErr]

\* the platform families: the build selects one extractConnectionString
Platforms == {"windows", "unix"}

extractConnectionString(goos, podmanSocket, podmanPipe) ==
    IF goos = "windows"
    THEN extractConnectionStringWindows(podmanSocket, podmanPipe)
    ELSE extractConnectionStringUnix(podmanSocket, podmanPipe)

----------------------------------------------------------------------------
(* Machine Lifecycle Stubber: AppleHVStubber *)

\* cap on the count of Remove calls
MaxRemoves == 3

\* define.Status values
Running == "running"
VMStatuses == {Running, "stopped", "starting"}

\* the machine as its hypervisor sees it: the VM's status, whether the VM
\* exists, and whether the hypervisor's endpoint answers
Machines == [status : VMStatuses, exists : BOOLEAN, reachable : BOOLEAN]

\* mc.AppleHypervisor.Vfkit.State()
VfkitState(mc) ==
    IF mc.reachable
    THEN [status |-> mc.status, err |-> NilErr]
    ELSE [status |-> "unknown", err |-> ErrorsNew("vfkit endpoint unreachable")]

\* AppleHVStubber.State
AppleHVStubberState(mc, bypass) ==
    LET v == VfkitState(mc) IN
    IF v.err # NilErr
    THEN [status |-> "", err |-> v.err]
    ELSE [status |-> v.status, err |-> NilErr]

\* faulty variant: removing a VM that does not exist is an error
AppleHVStubberRemove_ErrWhenAbsent(mc) ==
    IF mc.exists
    THEN [msgs |-> Slice(<<>>), cleanup |-> NilErr, err |-> NilErr]
    ELSE [msgs |-> Slice(<<>>), cleanup |-> NilErr, err |-> ErrorsNew("vm does not exist")]

\* AppleHVStubber.Remove: the messages, what the returned cleanup function
\* returns when called, and the error
AppleHVStubberRemove(mc) ==
    [msgs |-> Slice(<<>>), cleanup |-> NilErr, err |-> NilErr]

\* mc.AppleHypervisor.Vfkit.Stop(force, wait): the stop request the hypervisor
\* receives, the machine afterwards, and the error
VfkitStop(mc, force, wait) ==
    IF mc.reachable
    THEN [request |-> [force |-> force, wait |-> wait],
          mc |-> [mc EXCEPT !.status = "stopped"], err |-> NilErr]
    ELSE [request |-> [force |-> force, wait |-> wait],
          mc |-> mc, err |-> ErrorsNew("vfkit endpoint unreachable")]

\* AppleHVStubber.StopVM: the caller's flag is not read; the hypervisor is
\* asked for a stop that is not forced and is waited for
AppleHVStubberStopVM(mc, hardStop) == VfkitStop(mc, FALSE, TRUE)

----------------------------------------------------------------------------
(* Collaborators of facade construction; ok is the outcome the environment  *)
(* gives the call.                                                          *)

\* infra.GetRuntime(ctx, flags, opts)
GetRuntime(flags, opts, ok) ==
    IF ok
    THEN [r |-> [ptr |-> "libpod.Runtime", StorageConfig |-> "storage.StoreOptions"], err |-> NilErr]
    ELSE [r |-> NilRuntime, err |-> ErrorsNew("GetRuntime failed")]

\* storage.GetStore(options)
GetStore(options, ok) ==
    IF ok
    THEN [store |-> [ptr |-> "storage.Store", options |-> options], err |-> NilErr]
    ELSE [store |-> NilStore, err |-> ErrorsNew("GetStore failed")]

\* the transport is established with a URI: one connection attempt
Dial(uri, opts, ok) ==
    IF ok
    THEN [ctx |-> [ptr |-> "context.Context", URI |-> uri], err |-> NilErr]
    ELSE [ctx |-> NilCtx, err |-> ErrorsNew("unable to connect to Podman socket")]

\* bindings.NewConnectionWithOptions(ctx, opts).  cn is what the call meets:
\* the machine (mc), the platform family and the machine's provisioned
\* artifacts (goos, socket, pipe), and whether the transport can be
\* established (dialOK).  A machine-mediated target is connected to only when
\* its stubber reports the VM running; the VM is never started from here.
NewConnectionWithOptions(opts, cn) ==
    IF opts.Machine
    THEN LET st == AppleHVStubberState(cn.mc, FALSE)
             stCall == [call |-> "State", arg |-> "mc", err |-> st.err, ret |-> st.status]
         IN
         IF st.err # NilErr
         THEN [ctx |-> NilCtx, err |-> st.err, calls |-> <<stCall>>]
         ELSE IF st.status # Running
         THEN [ctx |-> NilCtx, err |-> ErrorsNew("machine not running"), calls |-> <<stCall>>]
         ELSE LET x == extractConnectionString(cn.goos, cn.socket, cn.pipe)
                  xCall == [call |-> "extractConnectionString", arg |-> cn.goos, err |-> x.err]
              IN
              IF x.err # NilErr
              THEN [ctx |-> NilCtx, err |-> x.err, calls |-> <<stCall, xCall>>]
              ELSE LET d == Dial(x.uri, opts, cn.dialOK) IN
                   [ctx |-> d.ctx, err |-> d.err,
                    calls |-> <<stCall, xCall, [call |-> "Dial", arg |-> x.uri, err |-> d.err]>>]
    ELSE LET d == Dial(opts.URI, opts, cn.dialOK) IN
         [ctx |-> d.ctx, err |-> d.err,
          calls |-> <<[call |-> "Dial", arg |-> opts.URI, err |-> d.err]>>]

----------------------------------------------------------------------------
(* Facade construction *)

\* faulty variant: the store's error is ignored and an engine holding only the runtime is returned
NewLibpodTestingRuntime_NoStoreCheck(flags, opts, rtOK, stOK) ==
    LET g == GetRuntime(flags, opts, rtOK) IN
    IF g.err # NilErr
    THEN [engine |-> NilEngine, err |-> g.err,
          trace |-> <<[call |-> "GetRuntime", arg |-> flags, err |-> g.err]>>]
    ELSE LET s == GetStore(g.r.StorageConfig, stOK) IN
         [engine |-> [kind |-> "abi", Libpod |-> g.r, Store |-> s.store], err |-> s.err,
          trace |-> <<[call |-> "GetRuntime", arg |-> flags, err |-> g.err],
                      [call |-> "GetStore", arg |-> g.r.StorageConfig, err |-> s.err]>>]

\* faulty variant: the store is acquired first, with the default options,
\* whether or not a runtime can be constructed
NewLibpodTestingRuntime_StoreFirst(flags, opts, rtOK, stOK) ==
    LET s == GetStore("storage.DefaultStoreOptions", stOK)
        g == GetRuntime(flags, opts, rtOK)
        tr == <<[call |-> "GetStore", arg |-> "storage.DefaultStoreOptions", err |-> s.err],
                [call |-> "GetRuntime", arg |-> flags, err |-> g.err]>>
    IN
    IF g.err # NilErr
    THEN [engine |-> NilEngine, err |-> g.err, trace |-> tr]
    ELSE IF s.err # NilErr
    THEN [engine |-> NilEngine, err |-> s.err, trace |-> tr]
    ELSE [engine |-> [kind |-> "abi", Libpod |-> g.r, Store |-> s.store], err |-> NilErr,
          trace |-> tr]

NewLibpodTestingRuntime(flags, opts, rtOK, stOK) ==
    LET g == GetRuntime(flags, opts, rtOK) IN
    IF g.err # NilErr
    THEN [engine |-> NilEngine, err |-> g.err,
          trace |-> <<[call |-> "GetRuntime", arg |-> flags, err |-> g.err]>>]
    ELSE LET s == GetStore(g.r.StorageConfig, stOK) IN
         IF s.err # NilErr
         THEN [engine |-> NilEngine, err |-> s.err,
               trace |-> <<[call |-> "GetRuntime", arg |-> flags, err |-> g.err],
                           [call |-> "GetStore", arg |-> g.r.StorageConfig, err |-> s.err]>>]
         ELSE [engine |-> [kind |-> "abi", Libpod |-> g.r, Store |-> s.store], err |-> NilErr,
               trace |-> <<[call |-> "GetRuntime", arg |-> flags, err |-> g.err],
                           [call |-> "GetStore", arg |-> g.r.StorageConfig, err |-> s.err]>>]

\* faulty variant: the configuration's machine mode is not handed on
ConnectionOptions_NoMachine(f) ==
    [URI |-> f.URI, Identity |-> f.Identity, TLSCertFile |-> f.TLSCertFile,
     TLSKeyFile |-> f.TLSKeyFile, TLSCAFile |-> f.TLSCAFile, Machine |-> FALSE]

\* the bindings.Options NewTestingEngine builds from the configuration
ConnectionOptions(f) ==
    [URI |-> f.URI, Identity |-> f.Identity, TLSCertFile |-> f.TLSCertFile,
     TLSKeyFile |-> f.TLSKeyFile, TLSCAFile |-> f.TLSCAFile, Machine |-> f.MachineMode]

\* faulty variant: an unrecognized mode falls through to the Remote backend
NewTestingEngine_DefaultTunnel(f, rtOK, stOK, cn) ==
    IF f.EngineMode = ABIMode
    THEN NewLibpodTestingRuntime(f.FlagSet, f, rtOK, stOK)
    ELSE LET c == NewConnectionWithOptions(ConnectionOptions(f), cn) IN
         [engine |-> [kind |-> "tunnel", ClientCtx |-> c.ctx], err |-> c.err,
          trace |-> <<[call |-> "NewConnectionWithOptions", arg |-> ConnectionOptions(f),
                       err |-> c.err]>> \o c.calls]

\* faulty variant: when negotiation fails the Remote path falls back to the Direct backend
NewTestingEngine_FallbackToDirect(f, rtOK, stOK, cn) ==
    IF f.EngineMode = ABIMode
    THEN NewLibpodTestingRuntime(f.FlagSet, f, rtOK, stOK)
    ELSE IF f.EngineMode = TunnelMode
    THEN LET c == NewConnectionWithOptions(ConnectionOptions(f), cn)
             d == NewLibpodTestingRuntime(f.FlagSet, f, rtOK, stOK) IN
         IF c.err # NilErr
         THEN [engine |-> d.engine, err |-> d.err,
               trace |-> <<[call |-> "NewConnectionWithOptions", arg |-> ConnectionOptions(f),
                            err |-> c.err]>> \o c.calls \o d.trace]
         ELSE [engine |-> [kind |-> "tunnel", ClientCtx |-> c.ctx], err |-> c.err,
               trace |-> <<[call |-> "NewConnectionWithOptions", arg |-> ConnectionOptions(f),
                            err |-> c.err]>> \o c.calls]
    ELSE [engine |-> NilEngine,
          err |-> Errorf("runtime mode '%v' is not supported", <<f.EngineMode>>),
          trace |-> <<>>]

NewTestingEngine(f, rtOK, stOK, cn) ==
    IF f.EngineMode = ABIMode
    THEN NewLibpodTestingRuntime(f.FlagSet, f, rtOK, stOK)
    ELSE IF f.EngineMode = TunnelMode
    THEN LET c == NewConnectionWithOptions(ConnectionOptions(f), cn) IN
         [engine |-> [kind |-> "tunnel", ClientCtx |-> c.ctx], err |-> c.err,
          trace |-> <<[call |-> "NewConnectionWithOptions", arg |-> ConnectionOptions(f),
                       err |-> c.err]>> \o c.calls]
    ELSE [engine |-> NilEngine,
          err |-> Errorf("runtime mode '%v' is not supported", <<f.EngineMode>>),
          trace |-> <<>>]

\* the configurations a process may start with
PodmanConfigs ==
    [EngineMode : EngineModes, URI : URIs, MachineMode : BOOLEAN,
     Identity : {""}, TLSCertFile : {""}, TLSKeyFile : {""}, TLSCAFile : {""},
     FlagSet : {"flags"}]

\* the artifacts a machine may have provisioned
MachineArtifacts == {NilVMFile, [Path |-> <<"/", "a">>]}

\* what one negotiation may meet, the machine being mc
ConnEnvs(mc) ==
    [mc : {mc}, goos : Platforms, socket : MachineArtifacts, pipe : MachineArtifacts,
     dialOK : BOOLEAN]

\* the call of NewTestingEngine, once per process
NewTestingEngineCall ==
    /\ pc = "start"
    /\ \E rtOK \in BOOLEAN, stOK \in BOOLEAN, cn \in ConnEnvs(vm) :
         LET res == NewTestingEngine(facts, rtOK, stOK, cn) IN
         /\ engine' = res.engine
         /\ err' = res.err
         /\ trace' = res.trace
         /\ clientCtx' = IF res.engine.kind = "tunnel" /\ res.engine.ClientCtx # NilCtx
                         THEN "live" ELSE "nil"
    /\ pc' = "done"
    /\ UNCHANGED <<facts, requests, healthVars, last>>
    /\ UNCHANGED <<machineVars, adapterVars, streamVars>>
    /\ UNCHANGED toolVars

----------------------------------------------------------------------------
(* The libpod runtime's health check *)

\* define.HealthCheckStatus values
HealthCheckSuccess == "HealthCheckSuccess"
HealthCheckFailure == "HealthCheckFailure"
HealthCheckContainerStopped == "HealthCheckContainerStopped"
HealthCheckContainerNotFound == "HealthCheckContainerNotFound"
HealthCheckNotDefined == "HealthCheckNotDefined"
HealthCheckInternalError == "HealthCheckInternalError"

\* define.HealthCheckStatus.String()
StatusString(status) ==
    IF status = HealthCheckSuccess THEN "healthy" ELSE "unhealthy"

\* states of a container the runtime knows
CtrStates == {"healthy", "unhealthy", "nohc", "stopped", "broken"}

\* container names the runtime knows, and the names a caller may ask for
\* (0 names no container)
Names == 1..NumCtrs
LookupNames == 0..NumCtrs

\* libpod.Runtime.HealthCheck(ctx, name): (status, error); failures are typed
\* errors distinguishing not-found from internal
HealthCheck(cs, name) ==
    IF name \notin DOMAIN cs
    THEN [status |-> HealthCheckContainerNotFound,
          err |-> [kind |-> "ErrNoSuchCtr", msg |-> "no such container", args |-> <<name>>]]
    ELSE CASE cs[name] = "healthy" -> [status |-> HealthCheckSuccess, err |-> NilErr]
           [] cs[name] = "unhealthy" -> [status |-> HealthCheckFailure, err |-> NilErr]
           [] cs[name] = "nohc" ->
                [status |-> HealthCheckNotDefined,
                 err |-> Errorf("container %s has no defined healthcheck", <<name>>)]
           [] cs[name] = "stopped" ->
                [status |-> HealthCheckContainerStopped,
                 err |-> Errorf("container %s is not running", <<name>>)]
           [] OTHER ->
                [status |-> HealthCheckInternalError,
                 err |-> Errorf("unable to run health check on %s", <<name>>)]

\* a nil *define.HealthCheckResults
NilReport == [ptr |-> "nil"]

----------------------------------------------------------------------------
(* Direct backend: abi.ContainerEngine *)

\* faulty variant: a report is built whether or not the runtime returned an error
AbiHealthCheckRun_IgnoreErr(cs, nameOrID, options) ==
    LET rt == HealthCheck(cs, nameOrID) IN
    [report |-> [Status |-> StatusString(rt.status)], err |-> NilErr]

\* ContainerEngine.HealthCheckRun
AbiHealthCheckRun(cs, nameOrID, options) ==
    LET rt == HealthCheck(cs, nameOrID) IN
    IF rt.err # NilErr
    THEN [report |-> NilReport, err |-> rt.err]
    ELSE [report |-> [Status |-> StatusString(rt.status)], err |-> NilErr]

\* autoupdate.AutoUpdate's pass over the units: a failing unit adds its error,
\* any other unit adds its report, and the pass goes on to the next unit
RECURSIVE AutoUpdateUnits(_, _, _, _)
AutoUpdateUnits(units, k, reports, errs) ==
    IF k > Len(units)
    THEN [reports |-> Slice(reports), errs |-> Slice(errs)]
    ELSE IF units[k]
         THEN AutoUpdateUnits(units, k + 1, reports,
                              Append(errs, Errorf("auto-updating unit %d", <<k>>)))
         ELSE AutoUpdateUnits(units, k + 1,
                              Append(reports, [Unit |-> k, Updated |-> "true"]), errs)

\* autoupdate.AutoUpdate(ctx, runtime, options); units[k] tells whether unit k fails
AutoupdateAutoUpdate(units, options) == AutoUpdateUnits(units, 1, <<>>, <<>>)

\* faulty variant: the per-unit errors are collapsed into the first one
AbiAutoUpdate_FirstErr(units, options) ==
    LET r == AutoupdateAutoUpdate(units, options) IN
    [reports |-> r.reports,
     errs |-> IF Len(r.errs.items) > 1 THEN Slice(<<r.errs.items[1]>>) ELSE r.errs]

\* ContainerEngine.AutoUpdate
AbiAutoUpdate(units, options) == AutoupdateAutoUpdate(units, options)

----------------------------------------------------------------------------
(* The API server's handler and its response writers *)

\* utils.WriteResponse(w, code, value)
WriteResponse(code, value) == [code |-> code, kind |-> "report", body |-> value]

\* utils.Error(w, code, err)
UtilsError(code, e) == [code |-> code, kind |-> "error", body |-> e]

\* utils.ContainerNotFound(w, name, err)
ContainerNotFound(name, e) == UtilsError(404, e)

\* utils.InternalServerError(w, err)
InternalServerError(e) == UtilsError(500, e)

\* faulty variant: the return after the not-found response is missing
RunHealthCheckWrites_NoReturn(name, rt) ==
    IF rt.err # NilErr
    THEN IF rt.status = HealthCheckContainerNotFound
         THEN <<ContainerNotFound(name, rt.err), InternalServerError(rt.err)>>
         ELSE IF rt.status = HealthCheckNotDefined
         THEN <<UtilsError(409, rt.err)>>
         ELSE IF rt.status = HealthCheckContainerStopped
         THEN <<UtilsError(409, rt.err)>>
         ELSE <<InternalServerError(rt.err)>>
    ELSE <<WriteResponse(200, [Status |-> StatusString(rt.status)])>>

\* RunHealthCheck(w, r) from the runtime's (status, err) on: the responses
\* written to w, in order
RunHealthCheckWrites(name, rt) ==
    IF rt.err # NilErr
    THEN IF rt.status = HealthCheckContainerNotFound
         THEN <<ContainerNotFound(name, rt.err)>>
         ELSE IF rt.status = HealthCheckNotDefined
         THEN <<UtilsError(409, rt.err)>>
         ELSE IF rt.status = HealthCheckContainerStopped
         THEN <<UtilsError(409, rt.err)>>
         ELSE <<InternalServerError(rt.err)>>
    ELSE <<WriteResponse(200, [Status |-> StatusString(rt.status)])>>

\* RunHealthCheck(w, r): the one response the handler writes
RunHealthCheck(cs, name) == RunHealthCheckWrites(name, HealthCheck(cs, name))[1]

\* no response: the request never reached the server
NoResponse == [code |-> 0, kind |-> "none", body |-> NilReport]

----------------------------------------------------------------------------
(* Remote backend: tunnel.ContainerEngine and tunnel.ImageEngine *)

\* containers.RunHealthCheck(ctx, nameOrID, options): one request through a live
\* ClientCtx; a non-success response becomes an error carrying its status code
ContainersRunHealthCheck(ctxState, cs, nameOrID) ==
    IF ctxState # "live"
    THEN [report |-> NilReport,
          err |-> [kind |-> "transport", msg |-> ctxState, args |-> <<>>],
          roundTrips |-> 0, resp |-> NoResponse]
    ELSE LET resp == RunHealthCheck(cs, nameOrID) IN
         IF resp.code = 200
         THEN [report |-> resp.body, err |-> NilErr, roundTrips |-> 1, resp |-> resp]
         ELSE [report |-> NilReport,
               err |-> [kind |-> "ErrorModel", msg |-> resp.body.msg, args |-> <<resp.code>>],
               roundTrips |-> 1, resp |-> resp]

\* faulty variant: a failed request is sent a second time
TunnelHealthCheckRun_RetryOnce(callerCtx, icClientCtx, cs, nameOrID, options) ==
    LET first == ContainersRunHealthCheck(icClientCtx, cs, nameOrID)
        second == ContainersRunHealthCheck(icClientCtx, cs, nameOrID) IN
    IF first.err = NilErr
    THEN first
    ELSE [second EXCEPT !.roundTrips = first.roundTrips + second.roundTrips]

\* faulty variant: the call runs under the caller's context
TunnelHealthCheckRun_CallerScope(callerCtx, icClientCtx, cs, nameOrID, options) ==
    ContainersRunHealthCheck(IF icClientCtx = "live" THEN callerCtx ELSE icClientCtx,
                             cs, nameOrID)

\* ContainerEngine.HealthCheckRun: the caller's context is dropped, the
\* engine's ClientCtx is used
TunnelHealthCheckRun(callerCtx, icClientCtx, cs, nameOrID, options) ==
    ContainersRunHealthCheck(icClientCtx, cs, nameOrID)

\* faulty variant: the error list comes back empty
TunnelAutoUpdate_NoErr(callerCtx, icClientCtx, options) ==
    [reports |-> NilSlice, errs |-> Slice(<<>>), roundTrips |-> 0]

\* ContainerEngine.AutoUpdate
TunnelAutoUpdate(callerCtx, icClientCtx, options) ==
    [reports |-> NilSlice, errs |-> Slice(<<ErrorsNew("not implemented")>>), roundTrips |-> 0]

\* faulty variant: the operation is tried on the wire when the ClientCtx is live
TunnelShowTrust_OnWire(callerCtx, irClientCtx, args, options) ==
    IF irClientCtx = "live"
    THEN [report |-> NilReport, err |-> ErrorsNew("not implemented"), roundTrips |-> 1]
    ELSE [report |-> NilReport, err |-> ErrorsNew("not implemented"), roundTrips |-> 0]

\* ImageEngine.ShowTrust
TunnelShowTrust(callerCtx, irClientCtx, args, options) ==
    [report |-> NilReport, err |-> ErrorsNew("not implemented"), roundTrips |-> 0]

\* faulty variant: setting trust reports success
TunnelSetTrust_Succeeds(callerCtx, irClientCtx, args, options) ==
    [err |-> NilErr, roundTrips |-> 0]

\* ImageEngine.SetTrust
TunnelSetTrust(callerCtx, irClientCtx, args, options) ==
    [err |-> ErrorsNew("not implemented"), roundTrips |-> 0]

----------------------------------------------------------------------------
(* Request/Response Protocol Adapter: parameter encoding and artifacts.Pull *)

\* an optional field of an options struct: a nil pointer, or a pointer to v
Unset == [set |-> FALSE]
SetTo(v) == [set |-> TRUE, val |-> v]

\* a nil options pointer
NilOptions == [ptr |-> "nil"]

\* field values: a bool and a string
BoolVal(b) == [kind |-> "bool", v |-> b]
StrVal(str) == [kind |-> "string", v |-> str]

\* the parameter value of a simple field value
SimpleTypeToParam(x) ==
    IF x.kind = "bool" THEN (IF x.v THEN "true" ELSE "false") ELSE x.v

\* the parameter name of a field
ParamName(field) ==
    CASE field = "Quiet" -> "quiet"
      [] field = "Authfile" -> "authfile"
      [] field = "Username" -> "username"
      [] field = "Password" -> "password"

\* the fields of o that are set
SetFields(o) == IF o = NilOptions THEN {} ELSE {f \in DOMAIN o : o[f].set}

\* util.ToParams(o): url.Values with one value for every field of o that is
\* set; a nil o and nil fields give no parameter
UtilToParams(o) ==
    [p \in {ParamName(f) : f \in SetFields(o)} |->
        LET f == CHOOSE g \in SetFields(o) : ParamName(g) = p IN
        <<SimpleTypeToParam(o[f].val)>>]

\* util.ToParams(o) as it returns: the values and a nil error, or nil values
\* and the error of a field that could not be encoded (ok is whether every
\* field could)
UtilToParamsReturn(o, ok) ==
    IF ok
    THEN [values |-> UtilToParams(o), err |-> NilErr]
    ELSE [values |-> <<>>, err |-> ErrorsNew("ToParams failed")]

\* faulty variant: every field is sent, a nil field as the empty string
ScpOptionsToParams_SendsAbsent(o, ok) ==
    LET fields == IF o = NilOptions THEN {} ELSE DOMAIN o
        r == UtilToParamsReturn(o, ok) IN
    [values |-> [p \in {ParamName(f) : f \in fields} |->
                    LET f == CHOOSE g \in fields : ParamName(g) = p IN
                    IF o[f].set THEN <<SimpleTypeToParam(o[f].val)>> ELSE <<"">>],
     err |-> r.err]

\* (*ScpOptions).ToParams: what util.ToParams returns, values and error, as is
ScpOptionsToParams(o, ok) == UtilToParamsReturn(o, ok)

\* url.Values.Set(key, value)
ValuesSet(values, key, value) ==
    [p \in DOMAIN values \cup {key} |-> IF p = key THEN <<value>> ELSE values[p]]

\* new(PullOptions)
NewPullOptions == [Authfile |-> Unset, Username |-> Unset, Password |-> Unset]

\* (*PullOptions).GetAuthfile, GetUsername, GetPassword: the zero value when
\* the field is nil
GetAuthfile(o) == IF o.Authfile.set THEN o.Authfile.val.v ELSE ""
GetUsername(o) == IF o.Username.set THEN o.Username.val.v ELSE ""
GetPassword(o) == IF o.Password.set THEN o.Password.val.v ELSE ""

\* one collaborator call of Pull and the error it returned
Step(call, e) == [call |-> call, err |-> e]

\* the errors Pull's collaborators return when they fail
GetClientErr == ErrorsNew("ctx does not contain a client")
ToParamsErr == ErrorsNew("ToParams failed")
AuthHeaderErr == ErrorsNew("credentials cannot be resolved")
DoRequestErr == ErrorsNew("transport failure")
ProcessErr == ErrorsNew("unable to decode response body")

\* a nil *entities.ArtifactPullReport
NilPullReport == [ptr |-> "nil"]

\* auth.MakeXRegistryAuthHeader(sys, username, password)
MakeXRegistryAuthHeader(sys, username, password, ok) ==
    IF ok
    THEN [header |-> [XRegistryAuth |-> <<sys.AuthFilePath, username, password>>], err |-> NilErr]
    ELSE [header |-> [ptr |-> "nil"], err |-> AuthHeaderErr]

\* faulty variant: the response body stays open when decoding fails
Pull_NoCloseOnDecodeError(name, options, env) ==
    LET opts == IF options = NilOptions THEN NewPullOptions ELSE options
        s1 == <<Step("GetClient", IF env.getClient THEN NilErr ELSE GetClientErr)>>
        s2 == s1 \o <<Step("ToParams", IF env.toParams THEN NilErr ELSE ToParamsErr)>>
        params == ValuesSet(UtilToParams(opts), "name", name)
        h == MakeXRegistryAuthHeader([AuthFilePath |-> GetAuthfile(opts)],
                                     GetUsername(opts), GetPassword(opts), env.auth)
        s3 == s2 \o <<Step("MakeXRegistryAuthHeader", h.err)>>
        s4 == s3 \o <<[call |-> "DoRequest",
                       err |-> IF env.doRequest THEN NilErr ELSE DoRequestErr,
                       method |-> "POST", path |-> "/artifacts/pull",
                       params |-> params, header |-> h.header]>>
        s5 == s4 \o <<Step("Process", IF env.process THEN NilErr ELSE ProcessErr)>>
    IN
    IF ~env.getClient THEN [report |-> NilPullReport, err |-> GetClientErr, steps |-> s1]
    ELSE IF ~env.toParams THEN [report |-> NilPullReport, err |-> ToParamsErr, steps |-> s2]
    ELSE IF h.err # NilErr THEN [report |-> NilPullReport, err |-> h.err, steps |-> s3]
    ELSE IF ~env.doRequest THEN [report |-> NilPullReport, err |-> DoRequestErr, steps |-> s4]
    ELSE IF ~env.process
    THEN [report |-> NilPullReport, err |-> ProcessErr, steps |-> s5]
    ELSE [report |-> [ptr |-> "ArtifactPullReport", ArtifactDigest |-> env.digest],
          err |-> NilErr, steps |-> s5 \o <<Step("Body.Close", NilErr)>>]

\* faulty variant: the request is sent although the auth header could not be built
Pull_IgnoreAuthErr(name, options, env) ==
    LET opts == IF options = NilOptions THEN NewPullOptions ELSE options
        s1 == <<Step("GetClient", IF env.getClient THEN NilErr ELSE GetClientErr)>>
        s2 == s1 \o <<Step("ToParams", IF env.toParams THEN NilErr ELSE ToParamsErr)>>
        params == ValuesSet(UtilToParams(opts), "name", name)
        h == MakeXRegistryAuthHeader([AuthFilePath |-> GetAuthfile(opts)],
                                     GetUsername(opts), GetPassword(opts), env.auth)
        s3 == s2 \o <<Step("MakeXRegistryAuthHeader", h.err)>>
        s4 == s3 \o <<[call |-> "DoRequest",
                       err |-> IF env.doRequest THEN NilErr ELSE DoRequestErr,
                       method |-> "POST", path |-> "/artifacts/pull",
                       params |-> params, header |-> h.header]>>
        s5 == s4 \o <<Step("Process", IF env.process THEN NilErr ELSE ProcessErr)>>
    IN
    IF ~env.getClient THEN [report |-> NilPullReport, err |-> GetClientErr, steps |-> s1]
    ELSE IF ~env.toParams THEN [report |-> NilPullReport, err |-> ToParamsErr, steps |-> s2]
    ELSE IF ~env.doRequest THEN [report |-> NilPullReport, err |-> DoRequestErr, steps |-> s4]
    ELSE IF ~env.process
    THEN [report |-> NilPullReport, err |-> ProcessErr,
          steps |-> s5 \o <<Step("Body.Close", NilErr)>>]
    ELSE [report |-> [ptr |-> "ArtifactPullReport", ArtifactDigest |-> env.digest],
          err |-> NilErr, steps |-> s5 \o <<Step("Body.Close", NilErr)>>]

\* artifacts.Pull(ctx, name, options).  env is what the collaborators do:
\* whether ctx holds a client, whether the options encode, whether the auth
\* header can be built, whether the transport answers, whether the body
\* decodes.  steps are the collaborator calls in the order they are made; the
\* deferred Body.Close runs when Pull returns.
Pull(name, options, env) ==
    LET opts == IF options = NilOptions THEN NewPullOptions ELSE options
        s1 == <<Step("GetClient", IF env.getClient THEN NilErr ELSE GetClientErr)>>
        s2 == s1 \o <<Step("ToParams", IF env.toParams THEN NilErr ELSE ToParamsErr)>>
        params == ValuesSet(UtilToParams(opts), "name", name)
        h == MakeXRegistryAuthHeader([AuthFilePath |-> GetAuthfile(opts)],
                                     GetUsername(opts), GetPassword(opts), env.auth)
        s3 == s2 \o <<Step("MakeXRegistryAuthHeader", h.err)>>
        s4 == s3 \o <<[call |-> "DoRequest",
                       err |-> IF env.doRequest THEN NilErr ELSE DoRequestErr,
                       method |-> "POST", path |-> "/artifacts/pull",
                       params |-> params, header |-> h.header]>>
        s5 == s4 \o <<Step("Process", IF env.process THEN NilErr ELSE ProcessErr)>>
    IN
    IF ~env.getClient THEN [report |-> NilPullReport, err |-> GetClientErr, steps |-> s1]
    ELSE IF ~env.toParams THEN [report |-> NilPullReport, err |-> ToParamsErr, steps |-> s2]
    ELSE IF h.err # NilErr THEN [report |-> NilPullReport, err |-> h.err, steps |-> s3]
    ELSE IF ~env.doRequest THEN [report |-> NilPullReport, err |-> DoRequestErr, steps |-> s4]
    ELSE IF ~env.process
    THEN [report |-> NilPullReport, err |-> ProcessErr,
          steps |-> s5 \o <<Step("Body.Close", NilErr)>>]
    ELSE [report |-> [ptr |-> "ArtifactPullReport", ArtifactDigest |-> env.digest],
          err |-> NilErr, steps |-> s5 \o <<Step("Body.Close", NilErr)>>]

----------------------------------------------------------------------------
(* Direct backend: the Events subscription *)

\* the runtime's stream-closed condition
StreamClosed == ErrorsNew("stream closed")

\* faulty variant: the time bounds are exchanged
EventsReadOptions_SwapsBounds(opts) ==
    [FromStart |-> opts.FromStart, Stream |-> opts.Stream, Filters |-> opts.Filter,
     EventChannel |-> opts.EventChan, Since |-> opts.Until, Until |-> opts.Since]

\* the events.ReadOptions built from entities.EventsOptions
EventsReadOptions(opts) ==
    [FromStart |-> opts.FromStart, Stream |-> opts.Stream, Filters |-> opts.Filter,
     EventChannel |-> opts.EventChan, Since |-> opts.Since, Until |-> opts.Until]

\* what ends a read of the runtime's event stream: the scope of the call was
\* cancelled, the runtime closed the stream, or a read that does not follow
\* the stream reached its end
EndCauses == {"cancelled", "closed", "drained"}

\* the causes that may end a read now
PendingCauses(ctxState, readOpts, closed) ==
    {c \in EndCauses :
        \/ c = "cancelled" /\ ctxState = "cancelled"
        \/ c = "closed" /\ closed
        \/ c = "drained" /\ ~readOpts.Stream /\ ~closed}

\* libpod.Runtime.Events(ctx, readOpts), as it returns for a cause
LibpodEvents(ctxState, readOpts, cause) ==
    IF cause = "closed" THEN StreamClosed ELSE NilErr

\* faulty variant: the runtime's error is dropped
AbiEvents_SwallowErr(ctxState, opts, cause) ==
    LET e == LibpodEvents(ctxState, EventsReadOptions(opts), cause) IN NilErr

\* ContainerEngine.Events: the caller's context and the read options go to
\* the runtime, whose result is returned as is
AbiEvents(ctxState, opts, cause) ==
    LibpodEvents(ctxState, EventsReadOptions(opts), cause)

----------------------------------------------------------------------------
(* Operations as steps.  Each records its inputs and what it returned.      *)

\* no call made yet
NoCall == [op |-> "none"]
NoHealthCheck == [called |-> FALSE]

\* inputs callers may pass
CallerCtxs == {"live", "cancelled"}
TrustArgs == {<<>>, <<"docker.io">>}
ShowTrustOptions == {[JSON |-> FALSE], [JSON |-> TRUE]}
SetTrustOptions == {[Type |-> "accept"], [Type |-> "reject"]}
AutoUpdateOptions == {[DryRun |-> FALSE], [DryRun |-> TRUE]}
HealthCheckOptions == [Dummy |-> FALSE]

\* the outcomes of the runtime's auto-update units: TRUE where unit k fails
UnitLists == UNION {[1..n -> BOOLEAN] : n \in 0..MaxUnits}

AbiHealthCheckRunCall ==
    /\ \E n \in LookupNames :
         hcDirect' = [called |-> TRUE, name |-> n, rt |-> HealthCheck(ctrs, n),
                      out |-> AbiHealthCheckRun(ctrs, n, HealthCheckOptions)]
    /\ UNCHANGED <<facadeVars, clientCtx, requests, ctrs, hcRemote, last>>
    /\ UNCHANGED <<machineVars, adapterVars, streamVars>>
    /\ UNCHANGED toolVars

AbiAutoUpdateCall ==
    /\ \E units \in UnitLists, options \in AutoUpdateOptions :
         last' = [op |-> "AutoUpdate", backend |-> "abi", ctx |-> "none",
                  in |-> <<units, options>>, out |-> AbiAutoUpdate(units, options)]
    /\ UNCHANGED <<facadeVars, clientCtx, requests, healthVars>>
    /\ UNCHANGED <<machineVars, adapterVars, streamVars>>
    /\ UNCHANGED toolVars

TunnelHealthCheckRunCall ==
    /\ requests < MaxRequests
    /\ \E n \in LookupNames, callerCtx \in CallerCtxs :
         LET out == TunnelHealthCheckRun(callerCtx, clientCtx, ctrs, n, HealthCheckOptions) IN
         /\ hcRemote' = [called |-> TRUE, name |-> n, rt |-> HealthCheck(ctrs, n),
                         ctx |-> clientCtx, out |-> out]
         /\ requests' = requests + out.roundTrips
    /\ UNCHANGED <<facadeVars, clientCtx, ctrs, hcDirect, last>>
    /\ UNCHANGED <<machineVars, adapterVars, streamVars>>
    /\ UNCHANGED toolVars

TunnelAutoUpdateCall ==
    /\ \E callerCtx \in CallerCtxs, options \in AutoUpdateOptions :
         LET out == TunnelAutoUpdate(callerCtx, clientCtx, options) IN
         /\ last' = [op |-> "AutoUpdate", backend |-> "tunnel", ctx |-> clientCtx,
                     in |-> options, out |-> out]
         /\ requests' = requests + out.roundTrips
    /\ UNCHANGED <<facadeVars, clientCtx, healthVars>>
    /\ UNCHANGED <<machineVars, adapterVars, streamVars>>
    /\ UNCHANGED toolVars

TunnelShowTrustCall ==
    /\ \E callerCtx \in CallerCtxs, args \in TrustArgs, options \in ShowTrustOptions :
         LET out == TunnelShowTrust(callerCtx, clientCtx, args, options) IN
         /\ last' = [op |-> "ShowTrust", backend |-> "tunnel", ctx |-> clientCtx,
                     in |-> <<args, options>>, out |-> out]
         /\ requests' = requests + out.roundTrips
    /\ UNCHANGED <<facadeVars, clientCtx, healthVars>>
    /\ UNCHANGED <<machineVars, adapterVars, streamVars>>
    /\ UNCHANGED toolVars

TunnelSetTrustCall ==
    /\ \E callerCtx \in CallerCtxs, args \in TrustArgs, options \in SetTrustOptions :
         LET out == TunnelSetTrust(callerCtx, clientCtx, args, options) IN
         /\ last' = [op |-> "SetTrust", backend |-> "tunnel", ctx |-> clientCtx,
                     in |-> <<args, options>>, out |-> out]
         /\ requests' = requests + out.roundTrips
    /\ UNCHANGED <<facadeVars, clientCtx, healthVars>>
    /\ UNCHANGED <<machineVars, adapterVars, streamVars>>
    /\ UNCHANGED toolVars

\* the ClientCtx's scope is cancelled
CancelClientCtx ==
    /\ clientCtx = "live"
    /\ clientCtx' = "cancelled"
    /\ UNCHANGED <<facadeVars, requests, healthVars, last>>
    /\ UNCHANGED <<machineVars, adapterVars, streamVars>>
    /\ UNCHANGED toolVars

\* a container of the runtime changes state
CtrStateChange ==
    /\ \E n \in Names, s \in CtrStates :
         /\ ctrs[n] # s
         /\ ctrs' = [ctrs EXCEPT ![n] = s]
    /\ UNCHANGED <<facadeVars, clientCtx, requests, hcDirect, hcRemote, last>>
    /\ UNCHANGED <<machineVars, adapterVars, streamVars>>
    /\ UNCHANGED toolVars

\* the machine of a host whose VM is up
DefaultMachine == [status |-> Running, exists |-> TRUE, reachable |-> TRUE]

\* nothing called yet
NoStubCall == [op |-> "none", removes |-> 0]
NoResolve == [called |-> FALSE]
NoPull == [called |-> FALSE]
NoEncode == [called |-> FALSE]
NoEvents == [phase |-> "idle"]
NoCalls == <<>>
NoCmd == [called |-> FALSE]
NoRandom == [called |-> FALSE]

\* the parts of the state a specification leaves alone
QuietFacade ==
    /\ facts = [EngineMode |-> TunnelMode, URI |-> "unix:///run/podman/podman.sock",
                MachineMode |-> FALSE, Identity |-> "", TLSCertFile |-> "",
                TLSKeyFile |-> "", TLSCAFile |-> "", FlagSet |-> "flags"]
    /\ pc = "start"
    /\ engine = NilEngine
    /\ err = NilErr
    /\ trace = <<>>
QuietBackends ==
    /\ requests = 0
    /\ ctrs = [n \in Names |-> "healthy"]
    /\ hcDirect = NoHealthCheck
    /\ hcRemote = NoHealthCheck
    /\ last = NoCall
QuietMachine == vm = DefaultMachine /\ stub = NoStubCall
QuietAdapter == resolve = NoResolve /\ pull = NoPull /\ enc = NoEncode
QuietStreams == ev = NoEvents /\ calls = NoCalls
QuietTools == cmd = NoCmd /\ rnd = NoRandom

\* AppleHVStubber.Remove is called
StubberRemoveCall ==
    /\ stub.removes < MaxRemoves
    /\ stub' = [op |-> "Remove", removes |-> stub.removes + 1, existed |-> vm.exists,
                out |-> AppleHVStubberRemove(vm)]
    /\ UNCHANGED <<facadeVars, clientCtx, requests, healthVars, last, vm>>
    /\ UNCHANGED <<adapterVars, streamVars>>
    /\ UNCHANGED toolVars

\* AppleHVStubber.State is called
StubberStateCall ==
    /\ \E bypass \in BOOLEAN :
         stub' = [op |-> "State", removes |-> stub.removes, existed |-> vm.exists,
                  out |-> AppleHVStubberState(vm, bypass)]
    /\ UNCHANGED <<facadeVars, clientCtx, requests, healthVars, last, vm>>
    /\ UNCHANGED <<adapterVars, streamVars>>
    /\ UNCHANGED toolVars

\* AppleHVStubber.StopVM is called
StubberStopVMCall ==
    /\ \E hardStop \in BOOLEAN :
         LET out == AppleHVStubberStopVM(vm, hardStop) IN
         /\ stub' = [op |-> "StopVM", removes |-> stub.removes, existed |-> vm.exists,
                     hardStop |-> hardStop, out |-> [request |-> out.request, err |-> out.err]]
         /\ vm' = out.mc
    /\ UNCHANGED <<facadeVars, clientCtx, requests, healthVars, last>>
    /\ UNCHANGED <<adapterVars, streamVars>>
    /\ UNCHANGED toolVars

\* the VM changes under the hypervisor: it starts, stops, is deleted or
\* created, or the hypervisor's endpoint comes and goes
VMChange ==
    /\ \E m \in Machines :
         /\ m # vm
         /\ vm' = m
    /\ UNCHANGED <<facadeVars, clientCtx, requests, healthVars, last, stub>>
    /\ UNCHANGED <<adapterVars, streamVars>>
    /\ UNCHANGED toolVars

----------------------------------------------------------------------------
(* Spec: one process.  The facade is constructed once and every later call  *)
(* goes through the backend it was bound to.                                *)

\* the facade is constructed and bound to this backend
Bound(kind) == pc = "done" /\ engine.kind = kind

Init ==
    /\ facts \in PodmanConfigs
    /\ pc = "start"
    /\ engine = NilEngine
    /\ err = NilErr
    /\ trace = <<>>
    /\ clientCtx = "nil"
    /\ requests = 0
    /\ ctrs = [n \in Names |-> "healthy"]
    /\ hcDirect = NoHealthCheck
    /\ hcRemote = NoHealthCheck
    /\ last = NoCall
    /\ QuietMachine
    /\ QuietAdapter
    /\ QuietStreams
    /\ QuietTools

DirectHealthCheckRun == Bound("abi") /\ AbiHealthCheckRunCall
DirectAutoUpdate == Bound("abi") /\ AbiAutoUpdateCall
RemoteHealthCheckRun == Bound("tunnel") /\ TunnelHealthCheckRunCall
RemoteAutoUpdate == Bound("tunnel") /\ TunnelAutoUpdateCall
RemoteShowTrust == Bound("tunnel") /\ TunnelShowTrustCall
RemoteSetTrust == Bound("tunnel") /\ TunnelSetTrustCall
RemoteCancel == Bound("tunnel") /\ CancelClientCtx

Next ==
    \/ NewTestingEngineCall
    \/ DirectHealthCheckRun
    \/ DirectAutoUpdate
    \/ RemoteHealthCheckRun
    \/ RemoteAutoUpdate
    \/ RemoteShowTrust
    \/ RemoteSetTrust
    \/ RemoteCancel

Spec == Init /\ [][Next]_vars

----------------------------------------------------------------------------
(* SpecBackends: the two backends side by side on one runtime.  The Direct  *)
(* engine calls the runtime in process; the Remote engine reaches the same   *)
(* runtime through the API server's handler.                                 *)

InitBackends ==
    /\ facts = [EngineMode |-> TunnelMode, URI |-> "unix:///run/podman/podman.sock",
                MachineMode |-> FALSE, Identity |-> "", TLSCertFile |-> "",
                TLSKeyFile |-> "", TLSCAFile |-> "", FlagSet |-> "flags"]
    /\ pc = "start"
    /\ engine = NilEngine
    /\ err = NilErr
    /\ trace = <<>>
    /\ clientCtx \in {"nil", "live"}
    /\ requests = 0
    /\ ctrs \in [Names -> CtrStates]
    /\ hcDirect = NoHealthCheck
    /\ hcRemote = NoHealthCheck
    /\ last = NoCall
    /\ QuietMachine
    /\ QuietAdapter
    /\ QuietStreams
    /\ QuietTools

NextBackends ==
    \/ AbiHealthCheckRunCall
    \/ TunnelHealthCheckRunCall
    \/ CancelClientCtx
    \/ CtrStateChange

SpecBackends == InitBackends /\ [][NextBackends]_vars

----------------------------------------------------------------------------
(* SpecResolve: extractConnectionString applied to the artifacts of a       *)
(* machine, on either platform family.                                       *)

\* machine names a pipe is derived from
MachineNames == {<<"a">>, <<"p", "o", "d", "m", "a", "n">>}

\* the socket and pipe artifacts handed to extractConnectionString
SocketArtifacts == {NilVMFile} \cup {[Path |-> p] : p \in ShortPaths}
PipeArtifacts == SocketArtifacts \cup {getPipe(n) : n \in MachineNames}

\* extractConnectionString is called with the inputs drawn in the initial state
ExtractConnectionStringCall ==
    /\ ~resolve.called
    /\ resolve' = [resolve EXCEPT
                     !.called = TRUE,
                     !.out = extractConnectionString(resolve.goos, resolve.socket, resolve.pipe)]
    /\ UNCHANGED <<facadeVars, clientCtx, requests, healthVars, last>>
    /\ UNCHANGED <<machineVars, pull, enc, streamVars>>
    /\ UNCHANGED toolVars

InitResolve ==
    /\ QuietFacade
    /\ clientCtx = "nil"
    /\ QuietBackends
    /\ QuietMachine
    /\ resolve \in [called : {FALSE}, goos : Platforms, socket : SocketArtifacts,
                    pipe : PipeArtifacts, out : {[uri |-> <<>>, err |-> NilErr]}]
    /\ pull = NoPull
    /\ enc = NoEncode
    /\ QuietStreams
    /\ QuietTools

NextResolve == ExtractConnectionStringCall

SpecResolve == InitResolve /\ [][NextResolve]_vars

----------------------------------------------------------------------------
(* SpecPull: artifacts.Pull applied to a name and options, against          *)
(* collaborators that succeed or fail, and ToParams applied to options.     *)

ArtifactNames == {"quay.io/a:1", ""}

\* the *PullOptions a caller may pass
PullOptionsSet ==
    {NilOptions} \cup
    [Authfile : {Unset, SetTo(StrVal("auth.json"))},
     Username : {Unset, SetTo(StrVal("u"))},
     Password : {Unset, SetTo(StrVal(""))}]

\* what the collaborators of one Pull call do
PullEnvs ==
    [getClient : BOOLEAN, toParams : BOOLEAN, auth : BOOLEAN, doRequest : BOOLEAN,
     process : BOOLEAN, digest : {"sha256:0"}]

\* the calls of a kind among the steps of a call
StepsOf(steps, kind) == {i \in 1..Len(steps) : steps[i].call = kind}

\* artifacts.Pull is called with the inputs drawn in the initial state
PullCall ==
    /\ ~pull.called
    /\ LET out == Pull(pull.name, pull.options, pull.env) IN
       /\ pull' = [pull EXCEPT !.called = TRUE, !.out = out]
       /\ requests' = requests + Cardinality(StepsOf(out.steps, "DoRequest"))
    /\ UNCHANGED <<facadeVars, clientCtx, healthVars, last>>
    /\ UNCHANGED <<machineVars, resolve, enc, streamVars>>
    /\ UNCHANGED toolVars

\* the *ScpOptions a caller may pass
ScpOptionsSet ==
    {NilOptions, [Quiet |-> Unset], [Quiet |-> SetTo(BoolVal(FALSE))],
     [Quiet |-> SetTo(BoolVal(TRUE))]}

\* (*ScpOptions).ToParams is called with the options drawn in the initial state
ScpOptionsToParamsCall ==
    /\ ~enc.called
    /\ enc' = [enc EXCEPT !.called = TRUE,
                          !.out = ScpOptionsToParams(enc.options, enc.encodable)]
    /\ UNCHANGED <<facadeVars, clientCtx, requests, healthVars, last>>
    /\ UNCHANGED <<machineVars, resolve, pull, streamVars>>
    /\ UNCHANGED toolVars

InitPull ==
    /\ QuietFacade
    /\ clientCtx = "live"
    /\ QuietBackends
    /\ QuietMachine
    /\ resolve = NoResolve
    /\ pull \in [called : {FALSE}, name : ArtifactNames, options : PullOptionsSet,
                 env : PullEnvs, out : {[report |-> NilPullReport, err |-> NilErr, steps |-> <<>>]}]
    /\ enc \in [called : {FALSE}, options : ScpOptionsSet, encodable : BOOLEAN,
                out : {[values |-> <<>>, err |-> NilErr]}]
    /\ QuietStreams
    /\ QuietTools

NextPull ==
    \/ PullCall
    \/ ScpOptionsToParamsCall

SpecPull == InitPull /\ [][NextPull]_vars

----------------------------------------------------------------------------
(* SpecEvents: one Events subscription on the Direct backend.  The call      *)
(* blocks between EventsCall and EventsReturn; meanwhile its scope may be    *)
(* cancelled and the runtime may close the stream.                           *)

\* the entities.EventsOptions a caller may pass
EventsOptionsSet ==
    [FromStart : BOOLEAN, Stream : BOOLEAN, Filter : {<<>>, <<"type=container">>},
     EventChan : {"chan"}, Since : {"", "1h"}, Until : {"", "now"}]

\* Events is called: the runtime starts reading with the read options; reads
\* counts the calls of the runtime's Events
EventsCall ==
    /\ ev.phase = "idle"
    /\ ev' = [ev EXCEPT !.phase = "streaming", !.readOpts = EventsReadOptions(ev.opts),
                       !.reads = @ + 1]
    /\ UNCHANGED <<facadeVars, clientCtx, requests, healthVars, last>>
    /\ UNCHANGED <<machineVars, adapterVars, calls>>
    /\ UNCHANGED toolVars

\* the caller cancels the scope of the call (or the scope expires)
CancelEventsScope ==
    /\ ev.phase \in {"idle", "streaming"}
    /\ ev.ctx = "live"
    /\ ev' = [ev EXCEPT !.ctx = "cancelled"]
    /\ UNCHANGED <<facadeVars, clientCtx, requests, healthVars, last>>
    /\ UNCHANGED <<machineVars, adapterVars, calls>>
    /\ UNCHANGED toolVars

\* the runtime closes the stream
RuntimeClosesStream ==
    /\ ev.phase = "streaming"
    /\ ~ev.closed
    /\ ev' = [ev EXCEPT !.closed = TRUE]
    /\ UNCHANGED <<facadeVars, clientCtx, requests, healthVars, last>>
    /\ UNCHANGED <<machineVars, adapterVars, calls>>
    /\ UNCHANGED toolVars

\* Events returns
EventsReturn ==
    /\ ev.phase = "streaming"
    /\ \E cause \in PendingCauses(ev.ctx, ev.readOpts, ev.closed) :
         ev' = [ev EXCEPT !.phase = "returned", !.cause = cause,
                          !.result = AbiEvents(ev.ctx, ev.opts, cause)]
    /\ UNCHANGED <<facadeVars, clientCtx, requests, healthVars, last>>
    /\ UNCHANGED <<machineVars, adapterVars, calls>>
    /\ UNCHANGED toolVars

InitEvents ==
    /\ QuietFacade
    /\ clientCtx = "nil"
    /\ QuietBackends
    /\ QuietMachine
    /\ QuietAdapter
    /\ ev \in [phase : {"idle"}, opts : EventsOptionsSet, readOpts : {NilReport},
               ctx : {"live"}, closed : {FALSE}, cause : {"none"}, result : {NilErr},
               reads : {0}]
    /\ calls = NoCalls
    /\ QuietTools

NextEvents ==
    \/ EventsCall
    \/ CancelEventsScope
    \/ RuntimeClosesStream
    \/ EventsReturn

\* Events runs on its own thread of control: once it can return, it does
SpecEvents == InitEvents /\ [][NextEvents]_vars /\ WF_vars(EventsReturn)

----------------------------------------------------------------------------
(* SpecCalls: several callers run HealthCheckRun through one Remote engine,  *)
(* each passing a context of its own.  A call is in flight between           *)
(* BeginCall and CompleteCall; contexts may be cancelled at any time.        *)

Callers == 1..NumCallers

\* a caller that has not called yet, its context live
IdleCaller == [pc |-> "idle", ctx |-> "live", name |-> "", shared |-> "nil", out |-> NoHealthCheck]

\* caller c calls HealthCheckRun, passing its context
BeginCall(c) ==
    /\ calls[c].pc = "idle"
    /\ \E n \in LookupNames :
         calls' = [calls EXCEPT ![c].pc = "inflight", ![c].name = n]
    /\ UNCHANGED <<facadeVars, clientCtx, requests, healthVars, last>>
    /\ UNCHANGED <<machineVars, adapterVars, ev>>
    /\ UNCHANGED toolVars

\* caller c cancels the context it passed or will pass
CancelCaller(c) ==
    /\ calls[c].pc \in {"idle", "inflight"}
    /\ calls[c].ctx = "live"
    /\ calls' = [calls EXCEPT ![c].ctx = "cancelled"]
    /\ UNCHANGED <<facadeVars, clientCtx, requests, healthVars, last>>
    /\ UNCHANGED <<machineVars, adapterVars, ev>>
    /\ UNCHANGED toolVars

\* the call of caller c returns
CompleteCall(c) ==
    /\ calls[c].pc = "inflight"
    /\ LET out == TunnelHealthCheckRun(calls[c].ctx, clientCtx, ctrs, calls[c].name,
                                       HealthCheckOptions) IN
       /\ calls' = [calls EXCEPT ![c].pc = "done", ![c].shared = clientCtx, ![c].out = out]
       /\ requests' = requests + out.roundTrips
    /\ UNCHANGED <<facadeVars, clientCtx, healthVars, last>>
    /\ UNCHANGED <<machineVars, adapterVars, ev>>
    /\ UNCHANGED toolVars

InitCalls ==
    /\ QuietFacade
    /\ clientCtx = "live"
    /\ QuietBackends
    /\ QuietMachine
    /\ QuietAdapter
    /\ ev = NoEvents
    /\ calls = [c \in Callers |-> IdleCaller]
    /\ QuietTools

NextCalls ==
    \/ \E c \in Callers : BeginCall(c)
    \/ \E c \in Callers : CancelCaller(c)
    \/ \E c \in Callers : CompleteCall(c)
    \/ CancelClientCtx

SpecCalls == InitCalls /\ [][NextCalls]_vars

----------------------------------------------------------------------------
(* SpecHandler: the server's RunHealthCheck handler against a runtime that  *)
(* may return any status with any error.                                     *)

HealthCheckStatuses ==
    {HealthCheckSuccess, HealthCheckFailure, HealthCheckContainerStopped,
     HealthCheckContainerNotFound, HealthCheckNotDefined, HealthCheckInternalError}

\* the errors a runtime returns, nil among them
RuntimeErrs(name) ==
    {NilErr,
     [kind |-> "ErrNoSuchCtr", msg |-> "no such container", args |-> <<name>>],
     Errorf("container %s has no defined healthcheck", <<name>>),
     Errorf("container %s is not running", <<name>>),
     Errorf("unable to run health check on %s", <<name>>)}

\* the (status, err) pairs runtime.HealthCheck may return for a name
RuntimeResults(name) == [status : HealthCheckStatuses, err : RuntimeErrs(name)]

\* the handler serves the request drawn in the initial state
ServeRunHealthCheck ==
    /\ last.op = "RunHealthCheck"
    /\ ~last.served
    /\ last' = [last EXCEPT !.served = TRUE, !.w = RunHealthCheckWrites(last.name, last.rt)]
    /\ UNCHANGED <<facadeVars, clientCtx, requests, healthVars>>
    /\ UNCHANGED <<machineVars, adapterVars, streamVars>>
    /\ UNCHANGED toolVars

InitHandler ==
    /\ QuietFacade
    /\ clientCtx = "nil"
    /\ requests = 0
    /\ ctrs = [n \in Names |-> "healthy"]
    /\ hcDirect = NoHealthCheck
    /\ hcRemote = NoHealthCheck
    /\ \E name \in LookupNames : \E rt \in RuntimeResults(name) :
         last = [op |-> "RunHealthCheck", served |-> FALSE, name |-> name, rt |-> rt, w |-> <<>>]
    /\ QuietMachine
    /\ QuietAdapter
    /\ QuietStreams
    /\ QuietTools

NextHandler == ServeRunHealthCheck

SpecHandler == InitHandler /\ [][NextHandler]_vars

----------------------------------------------------------------------------
(* The `network update` command.  cobra validates the arguments             *)
(* (Args: cobra.ExactArgs(1)) before it runs networkUpdate.                  *)

\* most arguments on a command line
MaxArgs == 2

NetworkNames == {"podman1", "podman2"}

\* the command lines: NetworkNames^0 .. NetworkNames^MaxArgs
ArgLists == UNION {[1..n -> NetworkNames] : n \in 0..MaxArgs}

\* networkUpdateOptions as the --dns-add and --dns-drop flags leave it
NetworkUpdateOptionsSet ==
    [AddDNSServers : {NilSlice, Slice(<<"1.1.1.1">>)},
     RemoveDNSServers : {NilSlice, Slice(<<"8.8.8.8">>)}]

\* how the engine's NetworkUpdate may end
NetworkUpdateOutcomes == {"ok", "no such network", "update failed"}

\* registry.ContainerEngine().NetworkUpdate(ctx, name, options): its error
EngineNetworkUpdate(name, options, outcome) ==
    IF outcome = "ok"
    THEN NilErr
    ELSE IF outcome = "no such network"
    THEN [kind |-> "ErrNoSuchNetwork", msg |-> "network not found", args |-> <<name>>]
    ELSE ErrorsNew("unable to update network")

\* nothing ran, nothing was printed
NoOutput == [err |-> NilErr, stdout |-> <<>>, engineCalls |-> <<>>]

\* faulty variant: the name is printed before the error is looked at
networkUpdate_PrintsAnyway(args, options, outcome) ==
    LET name == args[1]
        e == EngineNetworkUpdate(name, options, outcome) IN
    [err |-> e, stdout |-> <<name>>,
     engineCalls |-> <<[name |-> name, options |-> options]>>]

\* networkUpdate(cmd, args): the error returned, the lines printed and the
\* engine calls made
networkUpdate(args, options, outcome) ==
    LET name == args[1]
        e == EngineNetworkUpdate(name, options, outcome) IN
    IF e # NilErr
    THEN [err |-> e, stdout |-> <<>>,
          engineCalls |-> <<[name |-> name, options |-> options]>>]
    ELSE [err |-> NilErr, stdout |-> <<name>>,
          engineCalls |-> <<[name |-> name, options |-> options]>>]

\* cobra.ExactArgs(1), then RunE
NetworkUpdateCommand(args, options, outcome) ==
    IF Len(args) # 1
    THEN [err |-> [kind |-> "cobra.ExactArgs", msg |-> "accepts 1 arg(s)", args |-> <<>>],
          stdout |-> <<>>, engineCalls |-> <<>>]
    ELSE networkUpdate(args, options, outcome)

\* `podman network update` runs with the command line drawn in the initial state
RunNetworkUpdate ==
    /\ cmd.called = FALSE
    /\ "args" \in DOMAIN cmd
    /\ cmd' = [cmd EXCEPT !.called = TRUE,
                          !.out = NetworkUpdateCommand(cmd.args, cmd.options, cmd.outcome)]
    /\ UNCHANGED <<facadeVars, clientCtx, requests, healthVars, last>>
    /\ UNCHANGED <<machineVars, adapterVars, streamVars>>
    /\ UNCHANGED rnd

InitCommand ==
    /\ QuietFacade
    /\ clientCtx = "nil"
    /\ QuietBackends
    /\ QuietMachine
    /\ QuietAdapter
    /\ QuietStreams
    /\ rnd = NoRandom
    /\ cmd \in [called : {FALSE}, args : ArgLists, options : NetworkUpdateOptionsSet,
                outcome : NetworkUpdateOutcomes, out : {NoOutput}]

NextCommand == RunNetworkUpdate

SpecCommand == InitCommand /\ [][NextCommand]_vars

----------------------------------------------------------------------------
(* The test helper randomString(length)                                      *)

\* longest string asked for and longest program name (os.Args[0])
MaxLength == 6
MaxProgNameLen == 40

\* const charset = "abcdefghijklmnopqrstuvwxyz0123456789"
charset ==
    <<"a", "b", "c", "d", "e", "f", "g", "h", "i", "j", "k", "l", "m",
      "n", "o", "p", "q", "r", "s", "t", "u", "v", "w", "x", "y", "z",
      "0", "1", "2", "3", "4", "5", "6", "7", "8", "9">>

\* the index expression len(os.Args[0])%len(charset)+i%len(charset): the
\* remainders are taken first, then added
CharsetIndex(progLen, i) == (progLen % Len(charset)) + (i % Len(charset))

\* randomString(length): result[i] = charset[index] for i = 0 .. length-1, in
\* order; an index at or past len(charset) is a run-time panic (index out of
\* range) and nothing is returned
randomString(length, progLen) ==
    LET bad == {i \in 0..(length - 1) : CharsetIndex(progLen, i) >= Len(charset)} IN
    IF bad # {}
    THEN [panic |-> TRUE, result |-> <<>>]
    ELSE [panic |-> FALSE,
          result |-> [k \in 1..length |-> charset[CharsetIndex(progLen, k - 1) + 1]]]

\* a test calls randomString
RandomStringCall ==
    /\ rnd.called = FALSE
    /\ "length" \in DOMAIN rnd
    /\ rnd' = [rnd EXCEPT !.called = TRUE, !.out = randomString(rnd.length, rnd.progLen)]
    /\ UNCHANGED <<facadeVars, clientCtx, requests, healthVars, last>>
    /\ UNCHANGED <<machineVars, adapterVars, streamVars>>
    /\ UNCHANGED cmd

InitRandom ==
    /\ QuietFacade
    /\ clientCtx = "nil"
    /\ QuietBackends
    /\ QuietMachine
    /\ QuietAdapter
    /\ QuietStreams
    /\ cmd = NoCmd
    /\ rnd \in [called : {FALSE}, length : 0..MaxLength, progLen : 1..MaxProgNameLen,
                out : {[panic |-> FALSE, result |-> <<>>]}]

NextRandom == RandomStringCall

SpecRandom == InitRandom /\ [][NextRandom]_vars

----------------------------------------------------------------------------
(* SpecMachine: a Remote facade is constructed on a host whose machine may   *)
(* be in any state, while the Machine Lifecycle Stubber is called and the   *)
(* VM changes under the hypervisor.                                          *)

InitMachine ==
    /\ facts \in {f \in PodmanConfigs : f.EngineMode = TunnelMode}
    /\ pc = "start"
    /\ engine = NilEngine
    /\ err = NilErr
    /\ trace = <<>>
    /\ clientCtx = "nil"
    /\ QuietBackends
    /\ vm \in Machines
    /\ stub = NoStubCall
    /\ QuietAdapter
    /\ QuietStreams
    /\ QuietTools

NextMachine ==
    \/ NewTestingEngineCall
    \/ StubberRemoveCall
    \/ StubberStateCall
    \/ StubberStopVMCall
    \/ VMChange

SpecMachine == InitMachine /\ [][NextMachine]_vars

----------------------------------------------------------------------------
(* Facade construction: C1 - C4 *)

\* the calls of one kind NewTestingEngine made
CallsOf(call) == {i \in 1..Len(trace) : trace[i].call = call}

\* C1: for every EngineMode other than ABIMode and TunnelMode, NewTestingEngine
\* returns a nil engine and an error carrying the offending mode value, and it
\* calls neither the runtime/storage construction nor connection negotiation.
C1_UnsupportedModeConstructsNothing ==
    (pc = "done" /\ facts.EngineMode \notin {ABIMode, TunnelMode}) =>
        /\ engine = NilEngine
        /\ err # NilErr
        /\ err.args = <<facts.EngineMode>>
        /\ trace = <<>>
        /\ clientCtx = "nil"

C1_Witness ==
    /\ pc = "done"
    /\ facts.EngineMode = "bogus"
    /\ engine = NilEngine
    /\ err.args = <<"bogus">>

\* C2: in Remote mode, when connection negotiation fails NewTestingEngine
\* returns the negotiation error and no facade instance: a non-nil error never
\* comes with a non-nil engine.
C2_NegotiationFailureReturnsNoEngine ==
    (pc = "done" /\ facts.EngineMode = TunnelMode /\ err # NilErr) =>
        /\ engine = NilEngine
        /\ err = trace[1].err

\* C3: in Direct mode, a failure of the runtime construction or of the storage
\* acquisition returns that error and a nil engine; a non-nil engine is returned
\* only when both succeeded, and it holds both the runtime and the store.
C3_DirectNoPartialFacade ==
    (pc = "done" /\ facts.EngineMode = ABIMode) =>
        /\ \A i \in 1..Len(trace) :
             trace[i].err # NilErr => (err = trace[i].err /\ engine = NilEngine)
        /\ err # NilErr => engine = NilEngine
        /\ engine # NilEngine =>
             /\ err = NilErr
             /\ engine.kind = "abi"
             /\ engine.Libpod # NilRuntime
             /\ engine.Store # NilStore
             /\ Len(trace) = 2
             /\ \A i \in 1..Len(trace) : trace[i].err = NilErr

C3_Witness ==
    /\ pc = "done"
    /\ facts.EngineMode = ABIMode
    /\ Len(trace) = 2
    /\ trace[2].call = "GetStore"
    /\ trace[2].err # NilErr
    /\ engine = NilEngine
    /\ err = trace[2].err

\* what C4 says of a constructed facade
OneBackendBound ==
    /\ Cardinality(CallsOf("GetRuntime") \cup CallsOf("NewConnectionWithOptions")) <= 1
    /\ engine.kind = "abi" => facts.EngineMode = ABIMode
    /\ engine.kind = "tunnel" => facts.EngineMode = TunnelMode
    /\ (facts.EngineMode = ABIMode /\ err = NilErr) => engine.kind = "abi"
    /\ (facts.EngineMode = TunnelMode /\ err = NilErr) => engine.kind = "tunnel"

\* C4: one NewTestingEngine call invokes at most one of the Direct runtime
\* construction and the Remote connection negotiation; the engine it returns is
\* the Direct variant exactly in Direct mode and the Remote variant exactly in
\* Remote mode; and no later facade operation changes the bound backend.
C4_ExactlyOneBackendBound ==
    [][/\ pc' = "done" => OneBackendBound'
       /\ pc = "done" => (engine' = engine /\ facts' = facts /\ pc' = "done")]_vars

C4_Witness ==
    /\ pc = "done"
    /\ engine.kind = "tunnel"
    /\ facts.EngineMode = TunnelMode
    /\ CallsOf("GetRuntime") = {}
    /\ last # NoCall

----------------------------------------------------------------------------
(* Health check: C5 - C7 *)

\* the error taxonomy: NotFound, Conflict, Unsupported, TransportFailure, Internal
ErrClass(e) ==
    CASE e.kind = "ErrorModel" ->
           (CASE e.args = <<404>> -> "NotFound"
              [] e.args = <<409>> -> "Conflict"
              [] OTHER -> "Internal")
      [] e.kind = "ErrNoSuchCtr" -> "NotFound"
      [] e.kind = "transport" -> "TransportFailure"
      [] e = ErrorsNew("not implemented") -> "Unsupported"
      [] OTHER -> "Internal"

\* the classification of what a health check returned
OutcomeClass(out) == IF out.err = NilErr THEN "Report" ELSE ErrClass(out.err)

\* the four-way mapping of the status code
StatusClass(status) ==
    CASE status \in {HealthCheckSuccess, HealthCheckFailure} -> "Report"
      [] status = HealthCheckContainerNotFound -> "NotFound"
      [] status \in {HealthCheckNotDefined, HealthCheckContainerStopped} -> "Conflict"
      [] OTHER -> "Internal"

\* the statuses of the five collaborator states the taxonomy names
TaxonomyStatuses ==
    {HealthCheckSuccess, HealthCheckFailure, HealthCheckContainerNotFound,
     HealthCheckNotDefined, HealthCheckContainerStopped}

\* C5: the Direct backend's HealthCheckRun yields, for every (status, error) the
\* runtime returns, the classified outcome the status code selects: a Report, a
\* NotFound, or a Conflict; never the runtime's error unclassified.
C5_DirectClassifiesByStatus ==
    (hcDirect.called /\ hcDirect.rt.status \in TaxonomyStatuses) =>
        OutcomeClass(hcDirect.out) = StatusClass(hcDirect.rt.status)

\* C6: for the same collaborator state the Direct backend's outcome and the
\* Remote backend's outcome (client call and server handler) carry the same
\* classification.
C6_BackendsClassifyAlike ==
    (/\ hcDirect.called
     /\ hcRemote.called
     /\ hcRemote.out.roundTrips = 1
     /\ hcDirect.rt = hcRemote.rt
     /\ hcDirect.rt.status \in TaxonomyStatuses) =>
        OutcomeClass(hcDirect.out) = OutcomeClass(hcRemote.out)

\* C7: a Report is produced exactly when the runtime returned no error, and its
\* Status is then the runtime's status as a string; on a runtime error the
\* Direct backend returns a nil report and the server handler writes no report.
C7_ReportIffNoError ==
    /\ hcDirect.called =>
         /\ (hcDirect.out.report # NilReport) <=> (hcDirect.rt.err = NilErr)
         /\ hcDirect.rt.err = NilErr =>
              /\ hcDirect.out.report = [Status |-> StatusString(hcDirect.rt.status)]
              /\ hcDirect.out.err = NilErr
         /\ hcDirect.rt.err # NilErr => hcDirect.out.err = hcDirect.rt.err
    /\ (hcRemote.called /\ hcRemote.out.roundTrips = 1) =>
         /\ (hcRemote.out.resp.kind = "report") <=> (hcRemote.rt.err = NilErr)
         /\ hcRemote.rt.err = NilErr =>
              hcRemote.out.resp.body = [Status |-> StatusString(hcRemote.rt.status)]

C7_Witness ==
    /\ hcDirect.called
    /\ hcDirect.rt.status = HealthCheckFailure
    /\ hcDirect.out.report = [Status |-> "unhealthy"]
    /\ hcRemote.called
    /\ hcRemote.rt.status = HealthCheckContainerStopped
    /\ hcRemote.out.resp.kind = "error"

----------------------------------------------------------------------------
(* Operations the Remote backend does not support, and auto-update: C8 - C10 *)

UnsupportedInRemote == {"AutoUpdate", "ShowTrust", "SetTrust"}

\* every error an operation returned
ErrorsOf(call) ==
    IF call.op = "AutoUpdate"
    THEN {call.out.errs.items[i] : i \in 1..Len(call.out.errs.items)}
    ELSE {call.out.err}

\* C8: AutoUpdate, ShowTrust and SetTrust on a Remote backend return the
\* Unsupported classification and make no transport call, whatever the
\* arguments and whatever the state of the ClientCtx.
C8_UnsupportedMakesNoTransportCall ==
    [][(/\ last' # last
        /\ last'.backend = "tunnel"
        /\ last'.op \in UnsupportedInRemote) =>
           /\ requests' = requests
           /\ last'.out.roundTrips = 0
           /\ ErrorsOf(last') # {}
           /\ \A e \in ErrorsOf(last') : ErrClass(e) = "Unsupported"]_vars

C8_Witness ==
    /\ last.op = "ShowTrust"
    /\ last.backend = "tunnel"
    /\ last.ctx = "cancelled"
    /\ requests > 0
    /\ last.out.roundTrips = 0

\* C9: in Remote mode ShowTrust returns a nil report and an error whose message
\* is exactly "not implemented", and SetTrust returns that error; neither
\* returns success.
C9_TrustNotImplemented ==
    /\ last.op = "ShowTrust" =>
         /\ last.out.report = NilReport
         /\ last.out.err.kind = "errorString"
         /\ last.out.err.msg = "not implemented"
         /\ last.out.err.args = <<>>
    /\ last.op = "SetTrust" =>
         /\ last.out.err.kind = "errorString"
         /\ last.out.err.msg = "not implemented"
         /\ last.out.err.args = <<>>

C9_Witness ==
    /\ last.op = "SetTrust"
    /\ last.in = <<(<<"docker.io">>), [Type |-> "reject"]>>
    /\ last.out.err.msg = "not implemented"

\* the positions of a list of units that fail (or not), in unit order
UnitsWhere(units, fails) ==
    SelectSeq([k \in 1..Len(units) |-> k], LAMBDA k : units[k] = fails)

\* C10: auto-update returns a list of reports and a list of errors: the errors
\* are exactly the failing units' errors in unit order, the reports exactly
\* those of the other units, so there are N minus (failing count) of them and a
\* failing unit does not stop the later ones.  The Direct backend returns the
\* collaborator's two lists unchanged; the Remote backend returns a nil report
\* list and exactly one error.
C10_AutoUpdatePerUnitOutcomes ==
    last.op = "AutoUpdate" =>
        IF last.backend = "abi"
        THEN LET units == last.in[1]
                 failing == UnitsWhere(units, TRUE)
                 passing == UnitsWhere(units, FALSE)
                 errs == last.out.errs.items
                 reports == last.out.reports.items
             IN /\ Len(errs) = Len(failing)
                /\ \A i \in 1..Len(errs) : errs[i].args = <<failing[i]>>
                /\ Len(reports) = Len(units) - Len(failing)
                /\ \A i \in 1..Len(reports) : reports[i].Unit = passing[i]
                /\ last.out = AutoupdateAutoUpdate(units, last.in[2])
        ELSE /\ last.out.reports = NilSlice
             /\ Len(last.out.errs.items) = 1

C10_Witness ==
    /\ last.op = "AutoUpdate"
    /\ last.backend = "abi"
    /\ last.in[1] = <<TRUE, FALSE, TRUE>>
    /\ Len(last.out.errs.items) = 2
    /\ Len(last.out.reports.items) = 1
    /\ last.out.reports.items[1].Unit = 2

----------------------------------------------------------------------------
(* Machine-mediated negotiation and the Machine Lifecycle Stubber *)

\* the collaborator calls of a kind in a trace
TraceCalls(tr, kind) == {i \in 1..Len(tr) : tr[i].call = kind}

\* the stubber reports the machine, without error, in a state other than running
ReportsNotRunning(mc) ==
    LET st == AppleHVStubberState(mc, FALSE) IN
    st.err = NilErr /\ st.status # Running

\* C11: when a Remote facade is constructed for a machine-mediated target whose
\* stubber reports a state other than running, negotiation fails with "machine
\* not running", no transport connection is attempted, and the VM is left as
\* it was: it is never started.
C11_NotRunningMachineFailsWithoutConnecting ==
    [][ ( /\ pc = "start"
          /\ pc' = "done"
          /\ facts.EngineMode = TunnelMode
          /\ facts.MachineMode
          /\ ReportsNotRunning(vm) )
        => ( /\ err' = ErrorsNew("machine not running")
             /\ TraceCalls(trace', "Dial") = {}
             /\ TraceCalls(trace', "State") # {}
             /\ clientCtx' = "nil"
             /\ vm' = vm
             /\ ReportsNotRunning(vm') ) ]_vars

C11_Witness ==
    /\ pc = "done"
    /\ facts.MachineMode
    /\ err = ErrorsNew("machine not running")
    /\ \E i \in TraceCalls(trace, "State") : trace[i].ret = "stopped"
    /\ vm.status = "stopped"
    /\ vm.reachable

\* C20: AppleHVStubber.Remove returns an empty message list, a cleanup
\* function that returns no error, and a nil error, whether or not the VM
\* exists and however many Remove calls came before.
C20_RemoveIsIdempotent ==
    stub.op = "Remove" =>
        /\ stub.out.err = NilErr
        /\ stub.out.msgs = Slice(<<>>)
        /\ stub.out.cleanup = NilErr

C20_Witness ==
    /\ stub.op = "Remove"
    /\ stub.removes = MaxRemoves
    /\ ~stub.existed
    /\ stub.out.err = NilErr

----------------------------------------------------------------------------
(* Transport address resolution *)

\* str is scheme followed by as many characters as path has
SchemeThenPath(str, scheme, path) ==
    /\ Len(str) = Len(scheme) + Len(path)
    /\ \A i \in 1..Len(scheme) : str[i] = scheme[i]

\* the part of str after the scheme
AfterScheme(str, scheme) == [i \in 1..(Len(str) - Len(scheme)) |-> str[Len(scheme) + i]]

\* C12: on the pipe platform a non-nil pipe with path P resolves, without
\* error, to "npipe://" followed by P with every backslash replaced by a
\* forward slash; on the socket platforms a non-nil socket with path P
\* resolves, without error, to "unix://" followed by P.
C12_ResolvesSelectedArtifact ==
    resolve.called =>
        /\ (resolve.goos = "windows" /\ resolve.pipe # NilVMFile) =>
              /\ resolve.out.err = NilErr
              /\ SchemeThenPath(resolve.out.uri, NpipeScheme, resolve.pipe.Path)
              /\ \A i \in 1..Len(resolve.pipe.Path) :
                    AfterScheme(resolve.out.uri, NpipeScheme)[i] =
                        IF resolve.pipe.Path[i] = "\\" THEN "/" ELSE resolve.pipe.Path[i]
        /\ (resolve.goos = "unix" /\ resolve.socket # NilVMFile) =>
              /\ resolve.out.err = NilErr
              /\ SchemeThenPath(resolve.out.uri, UnixScheme, resolve.socket.Path)
              /\ AfterScheme(resolve.out.uri, UnixScheme) = resolve.socket.Path

C12_Witness ==
    /\ resolve.called
    /\ resolve.goos = "windows"
    /\ resolve.pipe = getPipe(<<"a">>)
    /\ resolve.out.err = NilErr
    /\ \A i \in 1..Len(resolve.out.uri) : resolve.out.uri[i] # "\\"
    /\ Len(resolve.out.uri) = Len(NpipeScheme) + Len(resolve.pipe.Path)

\* C13: when the artifact of the selected platform family is nil, the result
\* is an error saying the artifact is not set and the empty URI, also when the
\* other family's artifact is there: the other artifact is never used instead.
C13_NilArtifactIsNotSubstituted ==
    resolve.called =>
        /\ (resolve.goos = "windows" /\ resolve.pipe = NilVMFile) =>
              /\ resolve.out.err = ErrorsNew("pipe of machine is not set")
              /\ resolve.out.uri = <<>>
        /\ (resolve.goos = "unix" /\ resolve.socket = NilVMFile) =>
              /\ resolve.out.err = ErrorsNew("socket of machine is not set")
              /\ resolve.out.uri = <<>>

C13_Witness ==
    /\ resolve.called
    /\ resolve.goos = "unix"
    /\ resolve.socket = NilVMFile
    /\ resolve.pipe # NilVMFile
    /\ resolve.out.err # NilErr
    /\ resolve.out.uri = <<>>

----------------------------------------------------------------------------
(* artifacts.Pull *)

\* the steps of a call without the deferred close of the body
WorkSteps(steps) == SelectSeq(steps, LAMBDA st : st.call # "Body.Close")

\* the order in which Pull makes its collaborator calls
PullOrder == <<"GetClient", "ToParams", "MakeXRegistryAuthHeader", "DoRequest", "Process">>

\* C14: Pull closes the response body exactly once on every path on which the
\* request returned a response, whether decoding the report succeeds or
\* fails, and after the decoding; where no response was returned nothing is
\* closed.
C14_BodyClosedOncePerResponse ==
    pull.called =>
        LET steps == pull.out.steps
            responses == {i \in StepsOf(steps, "DoRequest") : steps[i].err = NilErr}
            closes == StepsOf(steps, "Body.Close")
        IN /\ Cardinality(closes) = Cardinality(responses)
           /\ Cardinality(closes) <= 1
           /\ \A c \in closes : \A i \in 1..Len(steps) : i <= c
           /\ \A c \in closes : \E r \in responses : r < c

C14_Witness ==
    /\ pull.called
    /\ pull.out.err = ProcessErr
    /\ Cardinality(StepsOf(pull.out.steps, "Body.Close")) = 1
    /\ pull.out.steps[Len(pull.out.steps)].call = "Body.Close"

\* C15: Pull performs get-client, encode-parameters, build-auth-header,
\* do-request, decode-report in this order; the first step that fails ends the
\* call with a nil report and that step's error, and no later step is
\* performed; when no step fails all five are performed and the report is
\* returned without error.
C15_StepsInOrderStopAtFirstFailure ==
    pull.called =>
        LET work == WorkSteps(pull.out.steps)
            n == Len(work)
        IN /\ n \in 1..Len(PullOrder)
           /\ \A i \in 1..n : work[i].call = PullOrder[i]
           /\ \A i \in 1..(n - 1) : work[i].err = NilErr
           /\ pull.out.err = work[n].err
           /\ (work[n].err # NilErr) => pull.out.report = NilPullReport
           /\ (work[n].err = NilErr) => (n = Len(PullOrder) /\ pull.out.report # NilPullReport)

C15_Witness ==
    /\ pull.called
    /\ pull.out.err = AuthHeaderErr
    /\ pull.out.report = NilPullReport
    /\ Len(pull.out.steps) = 3
    /\ StepsOf(pull.out.steps, "DoRequest") = {}

----------------------------------------------------------------------------
(* Parameter encoding *)

\* C17: ToParams preserves every field that is present and emits no absent
\* one: when the encoding succeeds, every field set in the options has its
\* parameter, holding that field's value, and there is no other parameter,
\* so no empty string stands for an absent field; when util.ToParams fails
\* its error is returned and no parameter goes out.
C17_OnlySetFieldsBecomeParameters ==
    enc.called =>
        /\ enc.encodable =>
              /\ enc.out.err = NilErr
              /\ \A f \in SetFields(enc.options) :
                    /\ ParamName(f) \in DOMAIN enc.out.values
                    /\ enc.out.values[ParamName(f)] = <<SimpleTypeToParam(enc.options[f].val)>>
              /\ \A p \in DOMAIN enc.out.values :
                    /\ \E f \in SetFields(enc.options) : ParamName(f) = p
                    /\ enc.out.values[p] # <<"">>
              /\ enc.options # NilOptions =>
                    \A f \in DOMAIN enc.options :
                       ~enc.options[f].set => ParamName(f) \notin DOMAIN enc.out.values
        /\ ~enc.encodable =>
              /\ enc.out.err # NilErr
              /\ DOMAIN enc.out.values = {}

C17_Witness ==
    /\ enc.called
    /\ enc.encodable
    /\ enc.options = [Quiet |-> SetTo(BoolVal(FALSE))]
    /\ DOMAIN enc.out.values = {"quiet"}
    /\ enc.out.values["quiet"] = <<"false">>
    /\ enc.out.err = NilErr

----------------------------------------------------------------------------
(* Requests of the Remote backend *)

\* C16: a call on the Remote facade issues at most one transport request; a
\* failed request is returned to the caller as the call's error, with no
\* report and without a second attempt.
C16_AtMostOneRequestPerCall ==
    [][ (hcRemote' # hcRemote \/ requests' # requests) =>
           /\ requests' <= requests + 1
           /\ hcRemote'.called
           /\ requests' - requests = hcRemote'.out.roundTrips
           /\ (hcRemote'.out.resp # NoResponse /\ hcRemote'.out.resp.code # 200) =>
                 /\ hcRemote'.out.err # NilErr
                 /\ hcRemote'.out.err.args = <<hcRemote'.out.resp.code>>
                 /\ hcRemote'.out.report = NilReport
                 /\ requests' = requests + 1 ]_vars

C16_Witness ==
    /\ hcRemote.called
    /\ hcRemote.out.resp # NoResponse
    /\ hcRemote.out.resp.code = 404
    /\ hcRemote.out.err # NilErr
    /\ hcRemote.out.roundTrips = 1
    /\ requests = 1

----------------------------------------------------------------------------
(* The Events subscription *)

\* what a returned Events call says about why it ended
EventsOutcomeIsTruthful ==
    ev.phase = "returned" =>
        /\ ev.result \in {NilErr, StreamClosed}
        /\ (ev.ctx = "cancelled" /\ ~ev.closed) => ev.result = NilErr
        /\ (ev.closed /\ ev.ctx = "live") => ev.result = StreamClosed
        /\ ev.result = StreamClosed => ev.closed
        /\ (ev.result = NilErr /\ ev.readOpts.Stream) => ev.ctx = "cancelled"

\* C18: once the scope of an Events call is cancelled the call returns, and
\* it returns without error when the runtime did not close the stream; a
\* stream closed by the runtime alone returns the stream-closed condition; a
\* following subscription never returns the one for the other.
C18_CancelReturnsCleanlyClosureIsDistinct ==
    /\ []EventsOutcomeIsTruthful
    /\ (ev.phase = "streaming" /\ ev.ctx = "cancelled") ~> (ev.phase = "returned")
    /\ (ev.phase = "streaming" /\ ev.closed) ~> (ev.phase = "returned")

C18_Witness ==
    /\ ev.phase = "returned"
    /\ ev.readOpts.Stream
    /\ ev.ctx = "cancelled"
    /\ ~ev.closed
    /\ ev.result = NilErr

----------------------------------------------------------------------------
(* Callers sharing one ClientCtx *)

\* the call of caller c came back cancelled: no request was served for it
CameBackCancelled(c) == calls[c].out.err.kind = "transport"

\* C19: with several callers on one shared ClientCtx each call runs under its
\* own scope derived from the shared context: a returned call came back
\* cancelled exactly when its own context or the shared context was
\* cancelled, whatever the other callers did with theirs.
C19_EachCallUnderItsOwnScope ==
    \A c \in Callers :
        calls[c].pc = "done" =>
            (CameBackCancelled(c) <=>
                (calls[c].ctx = "cancelled" \/ calls[c].shared = "cancelled"))

----------------------------------------------------------------------------
(* Stopping the machine *)

\* C21: the stop request AppleHVStubber.StopVM issues to the hypervisor is a
\* forced stop exactly when the caller's force flag is true, and a graceful
\* stop when it is false.
C21_ForceFlagDeterminesStopRequest ==
    stub.op = "StopVM" => (stub.out.request.force <=> stub.hardStop)

----------------------------------------------------------------------------
(* The server's health-check handler *)

\* C25: for every (status, error) pair of the runtime the RunHealthCheck
\* handler writes exactly one response: with an error, 404 for status
\* container-not-found, 409 for not-defined and container-stopped, 500 for
\* any other status, each carrying the error; with no error, 200 with the
\* report of the status, whatever the status is.
C25_HandlerWritesOneClassifiedResponse ==
    (last.op = "RunHealthCheck" /\ last.served) =>
        /\ Len(last.w) = 1
        /\ last.rt.err # NilErr =>
              /\ last.w[1].kind = "error"
              /\ last.w[1].body = last.rt.err
              /\ last.w[1].code =
                    CASE last.rt.status = HealthCheckContainerNotFound -> 404
                      [] last.rt.status \in {HealthCheckNotDefined, HealthCheckContainerStopped} -> 409
                      [] OTHER -> 500
        /\ last.rt.err = NilErr =>
              /\ last.w[1].kind = "report"
              /\ last.w[1].code = 200
              /\ last.w[1].body.Status \in {"healthy", "unhealthy"}
              /\ (last.w[1].body.Status = "healthy") <=> (last.rt.status = HealthCheckSuccess)

C25_Witness ==
    /\ last.op = "RunHealthCheck"
    /\ last.served
    /\ last.rt.status = HealthCheckContainerNotFound
    /\ last.rt.err # NilErr
    /\ Len(last.w) = 1
    /\ last.w[1].code = 404

----------------------------------------------------------------------------
(* Order of acquisition in Direct construction *)

\* C26: Direct facade construction acquires its collaborators in a fixed
\* order: the store is requested only after the runtime was constructed
\* successfully and with that runtime's storage configuration; the returned
\* engine holds exactly that runtime and the store acquired for it; when the
\* runtime construction fails the store is never requested.
C26_DirectAcquisitionOrder ==
    (pc = "done" /\ facts.EngineMode = ABIMode) =>
        /\ Len(trace) >= 1
        /\ trace[1].call = "GetRuntime"
        /\ \A i \in 1..Len(trace) :
             trace[i].call = "GetStore" =>
                /\ i = 2
                /\ trace[1].err = NilErr
                /\ trace[i].arg = GetRuntime(facts.FlagSet, facts, TRUE).r.StorageConfig
        /\ trace[1].err # NilErr => CallsOf("GetStore") = {}
        /\ trace[1].err = NilErr => Cardinality(CallsOf("GetStore")) = 1
        /\ engine # NilEngine =>
             /\ engine.Libpod = GetRuntime(facts.FlagSet, facts, TRUE).r
             /\ engine.Store.ptr = "storage.Store"
             /\ engine.Store.options = engine.Libpod.StorageConfig
             /\ DOMAIN engine = {"kind", "Libpod", "Store"}

C26_Witness ==
    /\ pc = "done"
    /\ facts.EngineMode = ABIMode
    /\ Len(trace) = 2
    /\ trace[1].call = "GetRuntime"
    /\ trace[2].call = "GetStore"
    /\ trace[2].err = NilErr
    /\ engine # NilEngine
    /\ engine.Store.options = engine.Libpod.StorageConfig

----------------------------------------------------------------------------
(* Events is a pass-through *)

\* the six values of the caller's options, as the runtime was given them
ForwardedUnchanged(opts, readOpts) ==
    /\ readOpts.FromStart = opts.FromStart
    /\ readOpts.Stream = opts.Stream
    /\ readOpts.Filters = opts.Filter
    /\ readOpts.EventChannel = opts.EventChan
    /\ readOpts.Since = opts.Since
    /\ readOpts.Until = opts.Until

\* C27: the Direct backend's Events calls the runtime's event stream exactly
\* once, with the caller's FromStart, Stream, Filter, EventChan, Since and
\* Until unchanged, and returns the runtime's result (nil or the error)
\* unchanged; it retries nothing and changes no other state.
C27_EventsIsPassThrough ==
    [][/\ (ev.phase = "idle" /\ ev'.phase = "streaming") =>
             /\ ForwardedUnchanged(ev.opts, ev'.readOpts)
             /\ ev'.reads = 1
       /\ (ev.phase = "streaming" /\ ev'.phase = "returned") =>
             /\ ev'.result = LibpodEvents(ev.ctx, ev.readOpts, ev'.cause)
             /\ ev'.reads = 1
             /\ ev'.readOpts = ev.readOpts
       /\ ev.phase = "returned" => ev' = ev
       /\ ev'.opts = ev.opts
       /\ ev'.phase # ev.phase =>
             /\ ev'.ctx = ev.ctx
             /\ ev'.closed = ev.closed
             /\ UNCHANGED <<facadeVars, clientCtx, requests, healthVars, last>>
             /\ UNCHANGED <<machineVars, adapterVars, calls, toolVars>>]_vars

C27_Witness ==
    /\ ev.phase = "returned"
    /\ ev.reads = 1
    /\ ev.cause = "drained"
    /\ ev.opts.Since = "1h"
    /\ ev.opts.Until = ""
    /\ ev.opts.Filter = <<"type=container">>
    /\ ForwardedUnchanged(ev.opts, ev.readOpts)
    /\ ev.result = NilErr

----------------------------------------------------------------------------
(* The caller's context is dropped *)

\* C28: the Remote backend's HealthCheckRun discards the context its caller
\* passes and issues the request under the engine-wide ClientCtx: a call whose
\* own context was cancelled is served like any other while the ClientCtx is
\* live, and a call comes back cancelled exactly when the ClientCtx was
\* cancelled, whatever the state of its own context.
C28_CallerContextIsDiscarded ==
    \A c \in Callers :
        calls[c].pc = "done" =>
            /\ CameBackCancelled(c) <=> calls[c].shared = "cancelled"
            /\ calls[c].shared = "live" =>
                  /\ calls[c].out.roundTrips = 1
                  /\ calls[c].out.resp # NoResponse
            /\ calls[c].shared = "cancelled" =>
                  /\ calls[c].out.roundTrips = 0
                  /\ calls[c].out.resp = NoResponse

C28_Witness ==
    \E c \in Callers :
        /\ calls[c].pc = "done"
        /\ calls[c].ctx = "cancelled"
        /\ calls[c].shared = "live"
        /\ ~CameBackCancelled(c)
        /\ calls[c].out.roundTrips = 1

----------------------------------------------------------------------------
(* network update *)

\* C29: run with its single NETWORK argument, the network update command
\* makes exactly one NetworkUpdate engine call, with that argument, and
\* prints the network name if and only if the call succeeded; when the call
\* fails it returns the engine's error unchanged and prints nothing.
C29_NetworkUpdatePrintsIffEngineSucceeded ==
    (cmd.called /\ Len(cmd.args) = 1) =>
        /\ Len(cmd.out.engineCalls) = 1
        /\ cmd.out.engineCalls[1].name = cmd.args[1]
        /\ cmd.out.engineCalls[1].options = cmd.options
        /\ cmd.out.stdout \in {<<>>, <<cmd.args[1]>>}
        /\ (cmd.out.stdout = <<cmd.args[1]>>) <=> (cmd.outcome = "ok")
        /\ (cmd.out.err = NilErr) <=> (cmd.outcome = "ok")
        /\ cmd.outcome = "no such network" =>
              /\ cmd.out.err.kind = "ErrNoSuchNetwork"
              /\ cmd.out.err.args = <<cmd.args[1]>>
        /\ cmd.outcome = "update failed" =>
              cmd.out.err = ErrorsNew("unable to update network")

C29_Witness ==
    /\ cmd.called
    /\ Len(cmd.args) = 1
    /\ cmd.outcome = "no such network"
    /\ cmd.out.err.kind = "ErrNoSuchNetwork"
    /\ cmd.out.stdout = <<>>
    /\ Len(cmd.out.engineCalls) = 1

----------------------------------------------------------------------------
(* randomString *)

\* C30: randomString(length) never indexes outside its charset: for every
\* length >= 0 and every length of the program name it returns, without a
\* run-time panic, a string of exactly length characters, each of them from
\* the charset.
C30_RandomStringStaysInCharset ==
    rnd.called =>
        /\ ~rnd.out.panic
        /\ Len(rnd.out.result) = rnd.length
        /\ \A k \in 1..Len(rnd.out.result) :
              \E j \in 1..Len(charset) : rnd.out.result[k] = charset[j]

====
